---------------------------- MODULE Spec2Model ----------------------------
(***************************************************************************)
(* A model of the configurable news scraper (universal_news_scraper.py):   *)
(* the selector resolver (_find_element), the article extractor            *)
(* (_extract_article_from_container), the date handling it calls, and the  *)
(* orchestrator (scrape_news).                                             *)
(*                                                                         *)
(* Conventions.  A Python str is a sequence of one-character strings.  An  *)
(* element of the parsed page is identified by its index in the            *)
(* container's element list (document order); index 0 is Python's None.    *)
(* An optional text field of an article is <<>> for None and <<text>>      *)
(* otherwise.  A publish_date is a record tagged "none", "iso" or "str".   *)
(***************************************************************************)
EXTENDS Integers, Sequences, FiniteSets, TLC

(***************************************************************************)
(* Bounds of the model.                                                    *)
(***************************************************************************)
MaxContainers == 3

(***************************************************************************)
(* Python str operations used by the source.                               *)
(***************************************************************************)
Whitespace == {" ", "\t", "\n"}

Digits == <<"0", "1", "2", "3", "4", "5", "6", "7", "8", "9">>

IsDigit(c) == \E i \in 1..10 : Digits[i] = c

DigitVal(c) == (CHOOSE i \in 1..10 : Digits[i] = c) - 1

UpperCase == <<"A", "B", "C", "D", "E", "F", "G", "H", "I", "J", "K", "L", "M",
               "N", "O", "P", "Q", "R", "S", "T", "U", "V", "W", "X", "Y", "Z">>

LowerCase == <<"a", "b", "c", "d", "e", "f", "g", "h", "i", "j", "k", "l", "m",
               "n", "o", "p", "q", "r", "s", "t", "u", "v", "w", "x", "y", "z">>

LowerChar(c) ==
    IF \E i \in 1..26 : UpperCase[i] = c
    THEN LowerCase[CHOOSE i \in 1..26 : UpperCase[i] = c]
    ELSE c

\* str.lower()
Lower(s) == [i \in 1..Len(s) |-> LowerChar(s[i])]

\* str.strip(): drop leading and trailing whitespace
Strip(s) ==
    LET keep == {i \in 1..Len(s) : s[i] \notin Whitespace}
    IN  IF keep = {} THEN <<>>
        ELSE LET lo == CHOOSE i \in keep : \A j \in keep : i <= j
                 hi == CHOOSE i \in keep : \A j \in keep : j <= i
             IN  SubSeq(s, lo, hi)

\* `sub in s`
Contains(s, sub) ==
    \E i \in 1..(Len(s) - Len(sub) + 1) : SubSeq(s, i, i + Len(sub) - 1) = sub

\* s.split()[0]: the first whitespace-delimited token (<<>> stands for the
\* IndexError of an all-whitespace string)
FirstToken(s) ==
    LET t == Strip(s)
        ws == {i \in 1..Len(t) : t[i] \in Whitespace}
    IN  IF ws = {} THEN t
        ELSE SubSeq(t, 1, (CHOOSE i \in ws : \A j \in ws : i <= j) - 1)

RECURSIVE DecimalValue(_)
DecimalValue(ds) ==
    IF ds = <<>> THEN 0
    ELSE 10 * DecimalValue(SubSeq(ds, 1, Len(ds) - 1)) + DigitVal(ds[Len(ds)])

\* int(tok) accepts an optionally signed run of digits
IsIntLiteral(tok) ==
    LET body == IF tok # <<>> /\ tok[1] \in {"+", "-"} THEN Tail(tok) ELSE tok
    IN  body # <<>> /\ \A i \in 1..Len(body) : IsDigit(body[i])

IntValue(tok) ==
    IF tok[1] = "-" THEN 0 - DecimalValue(Tail(tok))
    ELSE IF tok[1] = "+" THEN DecimalValue(Tail(tok))
    ELSE DecimalValue(tok)

\* re.search(r'(\d+)', s): the leftmost maximal run of digits, <<>> if none
FirstDigitRun(s) ==
    LET ds == {i \in 1..Len(s) : IsDigit(s[i])}
    IN  IF ds = {} THEN <<>>
        ELSE LET lo == CHOOSE i \in ds : \A j \in ds : i <= j
                 stop == {i \in lo..Len(s) : ~IsDigit(s[i])}
                 hi == IF stop = {} THEN Len(s)
                       ELSE (CHOOSE i \in stop : \A j \in stop : i <= j) - 1
             IN  SubSeq(s, lo, hi)

(***************************************************************************)
(* The parsed page.  A container is a record [tag, cls, els]; els lists    *)
(* its descendant elements in document order, each a record                *)
(* [tag, par, cls, text, attrs]: par is the index of the parent element    *)
(* (0: the container itself), cls the set of CSS classes, text the result  *)
(* of get_text(), attrs the attributes present on the element.  A CSS      *)
(* selector is a record [tag, cls] ("" matches anything): "h2" is          *)
(* [tag |-> "h2", cls |-> ""], ".t" is [tag |-> "", cls |-> "t"].           *)
(***************************************************************************)
Css(tag, cls) == [tag |-> tag, cls |-> cls]

Elem(tag, par, cls, text, attrs) ==
    [tag |-> tag, par |-> par, cls |-> cls, text |-> text, attrs |-> attrs]

NoAttrs == [n \in {} |-> <<>>]

\* elem.get(name): <<>> stands for both None and the empty string, which
\* the source only ever tests for truth
Get(e, name) == IF name \in DOMAIN e.attrs THEN e.attrs[name] ELSE <<>>

Matches(e, sel) ==
    /\ sel.tag = "" \/ e.tag = sel.tag
    /\ sel.cls = "" \/ sel.cls \in e.cls

RECURSIVE IsDescendant(_, _, _)
IsDescendant(els, i, root) ==
    IF root = 0 THEN TRUE
    ELSE IF els[i].par = 0 THEN FALSE
    ELSE els[i].par = root \/ IsDescendant(els, els[i].par, root)

\* the first element of a set of indices in document order, 0 (None) if empty
First(S) == IF S = {} THEN 0 ELSE CHOOSE i \in S : \A j \in S : i <= j

\* node.select_one(selector)
SelectOne(els, root, sel) ==
    First({i \in 1..Len(els) : IsDescendant(els, i, root) /\ Matches(els[i], sel)})

\* node.find(name)
FindTag(els, root, tag) ==
    First({i \in 1..Len(els) : IsDescendant(els, i, root) /\ els[i].tag = tag})

\* node.find(class_=value)
FindClass(els, root, cls) ==
    First({i \in 1..Len(els) : IsDescendant(els, i, root) /\ cls \in els[i].cls})

\* node.find(attrs=map)
FindAttrs(els, root, amap) ==
    First({i \in 1..Len(els) :
             /\ IsDescendant(els, i, root)
             /\ \A n \in DOMAIN amap :
                   n \in DOMAIN els[i].attrs /\ els[i].attrs[n] = amap[n]})

RECURSIVE FindParentTag(_, _, _)
\* elem.find_parent(name): the nearest proper ancestor with that tag
FindParentTag(els, i, tag) ==
    IF els[i].par = 0 THEN 0
    ELSE IF els[els[i].par].tag = tag THEN els[i].par
    ELSE FindParentTag(els, els[i].par, tag)

(***************************************************************************)
(* Selector descriptors.  A str is [shape |-> "str", s |-> selector], a    *)
(* list is [shape |-> "list", l |-> <<selector, ...>>], a dict is          *)
(* [shape |-> "dict", d |-> <<[k |-> key, v |-> value], ...>>] with its    *)
(* entries in the dict's own (insertion) order.                            *)
(***************************************************************************)
Simple(sel) == [shape |-> "str", s |-> sel]

Fallback(sels) == [shape |-> "list", l |-> sels]

Keyed(entries) == [shape |-> "dict", d |-> entries]

Entry(k, v) == [k |-> k, v |-> v]

\* a resolver that tries only the first selector of the list
FirstSelectedOnlyHead(els, sels) ==
    IF sels = <<>> THEN 0 ELSE SelectOne(els, 0, Head(sels))

RECURSIVE FirstSelected(_, _)
\* for selector in selectors: elem = select_one(selector); if elem: return elem
FirstSelected(els, sels) ==
    IF sels = <<>> THEN 0
    ELSE LET elem == SelectOne(els, 0, Head(sels))
         IN  IF elem # 0 THEN elem ELSE FirstSelected(els, Tail(sels))

\* selector_value if isinstance(selector_value, list) else [selector_value]
CssList(v) == IF v.shape = "list" THEN v.l ELSE <<v.s>>

RECURSIVE FindKeyed(_, _)
\* the loop over selector_config.items()
FindKeyed(els, entries) ==
    IF entries = <<>> THEN 0
    ELSE LET e == Head(entries)
         IN  CASE e.k = "css" ->
                    LET elem == FirstSelected(els, CssList(e.v))
                    IN  IF elem # 0 THEN elem ELSE FindKeyed(els, Tail(entries))
               [] e.k = "tag" -> FindTag(els, 0, e.v)
               [] e.k = "class" -> FindClass(els, 0, e.v)
               [] e.k = "attrs" -> FindAttrs(els, 0, e.v)
               [] OTHER -> FindKeyed(els, Tail(entries))

\* UniversalNewsScraper._find_element
FindElement(els, selector_config) ==
    CASE selector_config.shape = "str" -> SelectOne(els, 0, selector_config.s)
      [] selector_config.shape = "list" -> FirstSelected(els, selector_config.l)
      [] selector_config.shape = "dict" -> FindKeyed(els, selector_config.d)
      [] OTHER -> 0

(***************************************************************************)
(* Dates.  The clock is read in minutes since datetime.min; a timestamp    *)
(* emitted by isoformat() is [k |-> "iso", t |-> minutes], a date passed   *)
(* through as text is [k |-> "str", s |-> text], None is [k |-> "none"],   *)
(* and [k |-> "raise"] is an exception leaving the parser.                 *)
(***************************************************************************)
Now == 1065000000

DateNone == [k |-> "none"]

DateStr(s) == [k |-> "str", s |-> s]

DateRaise == [k |-> "raise"]

\* a clock arithmetic that adds the interval
IsoAfter(m) == [k |-> "iso", t |-> Now + m]

\* (now - datetime.timedelta(minutes=m)).isoformat(); a result before
\* datetime.min is an OverflowError
IsoBefore(m) == IF m > Now THEN DateRaise ELSE [k |-> "iso", t |-> Now - m]

\* the `match = re.search(r'(\d+)', date_text)` arm shared by the three units
RelativeArm(date_text, unit) ==
    LET run == FirstDigitRun(date_text)
    IN  IF run # <<>> THEN IsoBefore(DecimalValue(run) * unit)
        ELSE DateStr(date_text)

\* UniversalNewsScraper._parse_relative_date
ParseRelativeDate(raw) ==
    IF raw = <<>> THEN DateNone
    ELSE LET date_text == Strip(Lower(raw))
         IN  IF Contains(date_text, <<"m", "i", "n", "u", "t", "e">>)
                \/ Contains(date_text, <<"m", "i", "n">>)
             THEN RelativeArm(date_text, 1)
             ELSE IF Contains(date_text, <<"h", "o", "u", "r">>)
             THEN RelativeArm(date_text, 60)
             ELSE IF Contains(date_text, <<"d", "a", "y">>)
             THEN RelativeArm(date_text, 1440)
             ELSE IF Contains(date_text, <<"y", "e", "s", "t", "e", "r", "d", "a", "y">>)
             THEN IsoBefore(1440)
             ELSE IF Contains(date_text, <<"t", "o", "d", "a", "y">>)
             THEN IsoBefore(0)
             ELSE DateStr(date_text)

\* int(date_str.split()[0]) followed by the subtraction, in parse_bbc_date
LegacyArm(date_str, unit) ==
    LET tok == FirstToken(date_str)
    IN  IF IsIntLiteral(tok) THEN IsoBefore(IntValue(tok) * unit) ELSE DateRaise

\* parse_bbc_date of news_scraper_configs.py
ParseBbcDateLegacy(date_str) ==
    IF Contains(date_str, <<"h", "r", "s", " ", "a", "g", "o">>)
    THEN LegacyArm(date_str, 60)
    ELSE IF Contains(date_str, <<"m", "i", "n", " ", "a", "g", "o">>)
    THEN LegacyArm(date_str, 1)
    ELSE DateStr(date_str)

\* parse_cnn_date of news_scraper_configs.py
ParseCnnDate(date_str) == DateStr(date_str)

\* self.site_config['date_parser'](publish_date)
ApplyDateParser(parser, raw) ==
    CASE parser = "parse_bbc_date" -> ParseBbcDateLegacy(raw)
      [] parser = "parse_cnn_date" -> ParseCnnDate(raw)

(***************************************************************************)
(* urllib.parse.urljoin, for references that are absolute ("h://o/x"),     *)
(* root-relative ("/x") or path-relative ("x").                            *)
(***************************************************************************)
HasScheme(l) ==
    \E i \in 1..Len(l) : l[i] = ":" /\ \A j \in 1..i : l[j] # "/"

\* scheme://host of an absolute URL
Origin(base) ==
    LET colon == CHOOSE i \in 1..Len(base) : base[i] = ":" /\ \A j \in 1..i : base[j] # "/"
        slashes == {i \in (colon + 3)..Len(base) : base[i] = "/"}
    IN  IF slashes = {} THEN base
        ELSE SubSeq(base, 1, (CHOOSE i \in slashes : \A j \in slashes : i <= j) - 1)

\* the base URL up to and including the last "/" of its path
Dir(base) ==
    LET o == Origin(base)
        slashes == {i \in (Len(o) + 1)..Len(base) : base[i] = "/"}
    IN  IF slashes = {} THEN o \o <<"/">>
        ELSE SubSeq(base, 1, CHOOSE i \in slashes : \A j \in slashes : j <= i)

UrlJoin(base, l) ==
    IF l = <<>> THEN base
    ELSE IF HasScheme(l) THEN l
    ELSE IF l[1] = "/" THEN Origin(base) \o l
    ELSE Dir(base) \o l

(***************************************************************************)
(* The site configuration is a record holding the keys the dict has:       *)
(* name, url (str), verbose (the constructor's flag), article_container    *)
(* (a descriptor), selectors (a record of descriptors, one per configured  *)
(* field), and optionally remove_duplicates, date_parser, post_process.    *)
(* date_parser and post_process name the function installed.               *)
(***************************************************************************)
Has(d, key) == key \in DOMAIN d

\* the 'same_as_title' string, which as a CSS selector is a tag name
SameAsTitle == Simple(Css("same_as_title", ""))

None == <<>>

Some(x) == <<x>>

\* 'key' in self.site_config and self.site_config['key']
Configured(cfg, key) == Has(cfg, key) /\ cfg[key] # "None"

\* the text of an optional field: "" or None when the selector does not
\* resolve, the stripped text otherwise
FieldElem(cfg, c, field) ==
    IF Has(cfg.selectors, field) THEN FindElement(c.els, cfg.selectors[field]) ELSE 0

\* an extractor that does not trim the title text
ExtractTitleUntrimmed(cfg, c) ==
    LET title_elem == FieldElem(cfg, c, "title")
    IN  IF title_elem # 0 THEN c.els[title_elem].text ELSE <<>>

\* lines 104-109
ExtractTitle(cfg, c) ==
    LET title_elem == FieldElem(cfg, c, "title")
    IN  IF title_elem # 0 THEN Strip(c.els[title_elem].text) ELSE <<>>

\* a link lookup that prefers the anchor nested in the title to the anchors
\* around it
LinkElemNestedFirst(cfg, c) ==
    IF cfg.selectors["link"] = SameAsTitle
    THEN LET title_elem == FindElement(c.els, cfg.selectors["title"])
         IN  IF title_elem = 0 THEN 0
             ELSE IF FindTag(c.els, title_elem, "a") # 0
             THEN FindTag(c.els, title_elem, "a")
             ELSE FindParentTag(c.els, title_elem, "a")
    ELSE FindElement(c.els, cfg.selectors["link"])

\* lines 118-126: the element the link is read from
LinkElem(cfg, c) ==
    IF cfg.selectors["link"] = SameAsTitle
    THEN LET title_elem == FindElement(c.els, cfg.selectors["title"])
             up == FindParentTag(c.els, title_elem, "a")
         IN  IF title_elem = 0 THEN 0
             ELSE IF up = 0 /\ FindTag(c.els, title_elem, "a") # 0
             THEN FindTag(c.els, title_elem, "a")
             ELSE up
    ELSE FindElement(c.els, cfg.selectors["link"])

\* an extractor that takes any link element, falling back to "#" for a
\* missing href
ExtractLinkAnyAnchor(cfg, c) ==
    IF Has(cfg.selectors, "link")
    THEN LET link_elem == LinkElem(cfg, c)
         IN  IF link_elem = 0 THEN <<>>
             ELSE IF Get(c.els[link_elem], "href") # <<>>
             THEN Get(c.els[link_elem], "href")
             ELSE <<"#">>
    ELSE <<>>

\* lines 115-129
ExtractLink(cfg, c) ==
    IF Has(cfg.selectors, "link")
    THEN LET link_elem == LinkElem(cfg, c)
         IN  IF link_elem # 0 /\ Get(c.els[link_elem], "href") # <<>>
             THEN Get(c.els[link_elem], "href")
             ELSE <<>>
    ELSE <<>>

\* lines 138-142
ExtractSummary(cfg, c) ==
    LET summary_elem == FieldElem(cfg, c, "summary")
    IN  IF summary_elem # 0 THEN Strip(c.els[summary_elem].text) ELSE <<>>

\* a raw date that prefers the visible text to the datetime attribute
RawDateTextFirst(e) ==
    IF Strip(e.text) # <<>> THEN Strip(e.text) ELSE Get(e, "datetime")

\* line 150: date_elem.get('datetime') or date_elem.get_text().strip()
RawDate(e) ==
    IF Get(e, "datetime") # <<>> THEN Get(e, "datetime") ELSE Strip(e.text)

\* lines 145-155
ExtractDate(cfg, c) ==
    LET date_elem == FieldElem(cfg, c, "date")
    IN  IF date_elem = 0 THEN DateNone
        ELSE IF Configured(cfg, "date_parser")
        THEN ApplyDateParser(cfg.date_parser, RawDate(c.els[date_elem]))
        ELSE ParseRelativeDate(RawDate(c.els[date_elem]))

\* lines 158-169: category and author
ExtractOptional(cfg, c, field) ==
    LET elem == FieldElem(cfg, c, field)
    IN  IF elem # 0 THEN Some(Strip(c.els[elem].text)) ELSE None

\* an image source that prefers the lazy-load attribute
ImageSourceLazyFirst(e) ==
    IF Get(e, "data-src") # <<>> THEN Get(e, "data-src") ELSE Get(e, "src")

\* img.get('src') or img.get('data-src')
ImageSource(e) ==
    IF Get(e, "src") # <<>> THEN Get(e, "src") ELSE Get(e, "data-src")

\* lines 172-184
ExtractImage(cfg, c) ==
    LET image_elem == FieldElem(cfg, c, "image")
        img_tag == IF image_elem = 0 THEN 0
                   ELSE IF c.els[image_elem].tag = "img" THEN image_elem
                   ELSE FindTag(c.els, image_elem, "img")
        image_url == IF img_tag = 0 THEN <<>> ELSE ImageSource(c.els[img_tag])
    IN  IF image_url # <<>> THEN Some(UrlJoin(cfg.url, image_url)) ELSE None

\* an assembly that records the site's URL as the source
BuildArticleSourceUrl(cfg, c, title, link) ==
    [title        |-> title,
     link         |-> UrlJoin(cfg.url, link),
     summary      |-> ExtractSummary(cfg, c),
     publish_date |-> ExtractDate(cfg, c),
     category     |-> ExtractOptional(cfg, c, "category"),
     author       |-> ExtractOptional(cfg, c, "author"),
     image_url    |-> ExtractImage(cfg, c),
     source       |-> cfg.url]

\* lines 187-196
BuildArticle(cfg, c, title, link) ==
    [title        |-> title,
     link         |-> UrlJoin(cfg.url, link),
     summary      |-> ExtractSummary(cfg, c),
     publish_date |-> ExtractDate(cfg, c),
     category     |-> ExtractOptional(cfg, c, "category"),
     author       |-> ExtractOptional(cfg, c, "author"),
     image_url    |-> ExtractImage(cfg, c),
     source       |-> cfg.name]

(***************************************************************************)
(* The post-process hook.  process_bbc_article is the hook shipped in      *)
(* news_scraper_configs.py.  "custom" is a hook supplied by the caller: an *)
(* arbitrary function of (article, container), whose behaviour on a        *)
(* container is the container's hk field: it returns the article as is     *)
(* ("same"), with a field added ("inject"), without its link ("droplink"), *)
(* returns None ("none") or raises ("raise").                              *)
(***************************************************************************)
Returned(a) == [kind |-> "article", a |-> a]

Discarded(why) == [kind |-> "none", why |-> why]

\* process_bbc_article of news_scraper_configs.py
ProcessBbcArticle(a, c) ==
    IF SelectOne(c.els, 0, Css("", "live-tag")) # 0
    THEN Returned(a @@ [is_live |-> TRUE])
    ELSE Returned(a)

CustomHook(a, c) ==
    CASE c.hk = "same" -> Returned(a)
      [] c.hk = "inject" -> Returned(a @@ [has_video |-> TRUE])
      [] c.hk = "droplink" -> Returned([f \in (DOMAIN a) \ {"link"} |-> a[f]])
      [] c.hk = "none" -> Discarded("hook returned None")
      [] c.hk = "raise" -> Discarded("exception")

\* lines 199-202
PostProcess(cfg, a, c) ==
    IF Configured(cfg, "post_process")
    THEN IF cfg.post_process = "process_bbc_article"
         THEN ProcessBbcArticle(a, c)
         ELSE CustomHook(a, c)
    ELSE Returned(a)

\* UniversalNewsScraper._extract_article_from_container: the article, or
\* None with the reason (an exception is caught at lines 204-206)
ExtractArticle(cfg, c) ==
    LET title == ExtractTitle(cfg, c)
        link == ExtractLink(cfg, c)
    IN  IF ~Has(cfg, "selectors") THEN Discarded("exception")
        ELSE IF title = <<>> THEN Discarded("title")
        ELSE IF link = <<>> THEN Discarded("link")
        ELSE IF ExtractDate(cfg, c) = DateRaise THEN Discarded("exception")
        ELSE PostProcess(cfg, BuildArticle(cfg, c, title, link), c)

(***************************************************************************)
(* The inputs: text, pages and site configurations.                        *)
(***************************************************************************)
SiteUrl == <<"h", "t", "t", "p", ":", "/", "/", "s", "/", "n">>

SiteName == <<"S">>

Href(l) == [href |-> l]

ThreeHoursAgo == <<"3", " ", "h", "o", "u", "r", "s", " ", "a", "g", "o">>

UpdatedHrsAgo ==
    <<"U", "p", "d", "a", "t", "e", "d", " ", "2", " ", "h", "r", "s", " ", "a", "g", "o">>

ThreeHrsAgo == <<"3", " ", "h", "r", "s", " ", "a", "g", "o">>

Node(cls, els, hk) == [tag |-> "div", cls |-> cls, els |-> els, hk |-> hk]

\* a card whose headline sits inside its link
CardX ==
    Node({"card"},
         <<Elem("a", 0, {}, <<" ", "A", " ">>, Href(<<"/", "x">>)),
           Elem("h2", 1, {"t"}, <<" ", "A", " ">>, NoAttrs),
           Elem("time", 0, {}, ThreeHoursAgo, NoAttrs)>>,
         "same")

\* a card whose link sits inside its headline, with a live tag
CardY ==
    Node({"card"},
         <<Elem("h2", 0, {"t"}, <<"B">>, NoAttrs),
           Elem("a", 1, {}, <<"B">>, Href(<<"/", "y">>)),
           Elem("span", 0, {"live-tag"}, <<"L">>, NoAttrs),
           Elem("time", 0, {}, ThreeHrsAgo, NoAttrs)>>,
         "inject")

\* a card linking to the page of CardX by its absolute URL
CardXAbs ==
    Node({"card"},
         <<Elem("h2", 0, {}, <<"C">>, NoAttrs),
           Elem("a", 0, {}, <<>>, Href(<<"h", "t", "t", "p", ":", "/", "/", "s", "/", "x">>)),
           Elem("time", 0, {}, UpdatedHrsAgo, NoAttrs)>>,
         "none")

\* a card whose headline is blank
CardBlank ==
    Node({"card"},
         <<Elem("h2", 0, {}, <<" ", " ">>, NoAttrs),
           Elem("a", 0, {}, <<"Z">>, Href(<<"/", "z">>))>>,
         "same")

\* a card whose anchor has no href
CardNoHref ==
    Node({"card"},
         <<Elem("h3", 0, {"t"}, <<"D">>, NoAttrs),
           Elem("h2", 0, {}, <<"D">>, NoAttrs),
           Elem("a", 0, {}, <<"D">>, NoAttrs)>>,
         "same")

\* a card on which a custom hook raises
CardHookRaises ==
    Node({"card"},
         <<Elem("h2", 0, {}, <<"E">>, NoAttrs),
           Elem("a", 0, {}, <<"E">>, Href(<<"/", "y">>))>>,
         "raise")

\* a card, its headlines inside its link, from which a custom hook removes
\* the link
CardHookDropsLink ==
    Node({"card"},
         <<Elem("a", 0, {}, <<"F">>, Href(<<"/", "w">>)),
           Elem("h2", 1, {}, <<"F">>, NoAttrs),
           Elem("h3", 1, {}, <<"F">>, NoAttrs)>>,
         "droplink")

\* a block of the page that is not a card
NavBlock ==
    Node({"nav"},
         <<Elem("h2", 0, {}, <<"N">>, NoAttrs),
           Elem("a", 0, {}, <<"N">>, Href(<<"/", "n">>))>>,
         "same")

\* a card whose headline sits inside two nested links and holds a third, and
\* whose time element carries a datetime attribute
CardNested ==
    Node({"card"},
         <<Elem("a", 0, {}, <<"G">>, Href(<<"/", "p">>)),
           Elem("a", 1, {}, <<"G">>, Href(<<"/", "q">>)),
           Elem("h2", 2, {"t"}, <<"G">>, NoAttrs),
           Elem("a", 3, {}, <<"G">>, Href(<<"/", "r">>)),
           Elem("time", 0, {}, <<" ", "5", " ", "m", "i", "n", " ", "a", "g", "o", " ">>,
                [datetime |-> <<"2", "0", "2", "4">>])>>,
         "same")

Nodes ==
    {CardX, CardY, CardXAbs, CardBlank, CardNoHref, CardHookRaises,
     CardHookDropsLink, NavBlock, CardNested}

RECURSIVE SeqsUpTo(_, _)
\* the sequences over S of length at most n
SeqsUpTo(S, n) ==
    IF n = 0 THEN {<<>>}
    ELSE LET shorter == SeqsUpTo(S, n - 1)
         IN  shorter \cup {Append(q, x) : q \in {r \in shorter : Len(r) = n - 1}, x \in S}

Pages == SeqsUpTo(Nodes, MaxContainers)

PlainSelectors ==
    [title |-> Simple(Css("h2", "")), link |-> Simple(Css("a", "")),
     date |-> Simple(Css("time", ""))]

\* a configuration in the style of the 'bbc' entry
CfgPlain ==
    [name |-> SiteName, url |-> SiteUrl, verbose |-> TRUE,
     article_container |-> Simple(Css("", "card")),
     selectors |-> PlainSelectors, remove_duplicates |-> TRUE,
     timeout |-> 20]

\* the same with a shorter timeout
CfgQuick == [CfgPlain EXCEPT !.timeout = 5]

\* the same with the processors of get_config_with_processors('bbc')
CfgBbc ==
    CfgPlain @@ [date_parser |-> "parse_bbc_date", post_process |-> "process_bbc_article"]

\* a custom hook, duplicates kept
CfgHookKeep ==
    [name |-> SiteName, url |-> SiteUrl, verbose |-> FALSE,
     article_container |-> Simple(Css("", "card")),
     selectors |-> PlainSelectors, remove_duplicates |-> FALSE,
     post_process |-> "custom"]

\* in the style of the 'cnn' entry: fallback lists and same_as_title, a
\* custom hook, remove_duplicates left to its default
CfgFallback ==
    [name |-> SiteName, url |-> SiteUrl, verbose |-> TRUE,
     article_container |-> Simple(Css("", "card")),
     selectors |-> [title |-> Fallback(<<Css("h3", ""), Css("", "t"), Css("h2", "")>>),
                    link |-> SameAsTitle,
                    date |-> Fallback(<<Css("time", "")>>)],
     post_process |-> "custom", date_parser |-> "None"]

\* dict selectors
CfgKeyed ==
    [name |-> SiteName, url |-> SiteUrl, verbose |-> TRUE,
     article_container |-> Simple(Css("", "card")),
     selectors |-> [title |-> Keyed(<<Entry("tag", "h3"), Entry("css", Simple(Css("h2", "")))>>),
                    link |-> Keyed(<<Entry("css", Fallback(<<Css("a", "")>>))>>)],
     remove_duplicates |-> TRUE]

\* a list of container selectors, as the 'cnn' and 'reuters' entries have
CfgListContainer ==
    [name |-> SiteName, url |-> SiteUrl, verbose |-> TRUE,
     article_container |-> Fallback(<<Css("", "card"), Css("", "nav")>>),
     selectors |-> PlainSelectors, remove_duplicates |-> TRUE]

\* get_config_with_processors of an unknown site key: {}
CfgEmpty == [verbose |-> TRUE]

\* a configuration without a name, as validate_config would reject
CfgNoName(verbose) ==
    [url |-> SiteUrl, verbose |-> verbose,
     article_container |-> Simple(Css("", "card")),
     selectors |-> PlainSelectors, remove_duplicates |-> TRUE]

Configs ==
    {CfgPlain, CfgQuick, CfgBbc, CfgHookKeep, CfgFallback, CfgKeyed,
     CfgListContainer, CfgEmpty, CfgNoName(TRUE), CfgNoName(FALSE)}

\* what session.get() ends in: a network failure (an exception) or a final
\* response with its status and body
Statuses == {200, 304, 404, 503}

FetchOutcomes ==
    {[kind |-> "error", status |-> 0, body |-> <<>>]}
        \cup {[kind |-> "response", status |-> st, body |-> pg] : st \in Statuses, pg \in Pages}

(***************************************************************************)
(* scrape_news as a state machine.                                         *)
(*   site_config  the configuration the scraper was constructed with       *)
(*   response     what the fetch of site_config['url'] ends in             *)
(*   pc           the position in scrape_news; "done" after a return,      *)
(*                "raised" after an exception left scrape_news             *)
(*   containers   article_containers (line 70)                             *)
(*   idx          the index of the next container of the loop (line 73)    *)
(*   outcomes     what _extract_article_from_container returned for each   *)
(*                container handled so far                                 *)
(*   articles     the local list articles                                  *)
(*   result       the value returned                                       *)
(*   fetches      the number of session.get() calls made                   *)
(*   get_timeout  the timeout argument of the session.get() call, in        *)
(*                seconds (0 before the call)                               *)
(*   html_write   whether the write of the debug file in save_html goes     *)
(*                through ("ok") or fails ("fails")                         *)
(*   log          the page fetches and file writes made so far, in order    *)
(*   mpc          the position in main ("none" when scrape_news is run on   *)
(*                its own)                                                  *)
(*   site         the index in sites_to_scrape of the site being handled    *)
(*   all_articles the local list all_articles of main                       *)
(* A helper checked on its own is a call: call holds the function and its  *)
(* arguments, ret the value it returned (pc "call", then "returned").      *)
(***************************************************************************)
VARIABLES site_config, response, pc, containers, idx, outcomes, articles,
          result, fetches, get_timeout, call, ret, html_write, log, mpc, site,
          all_articles

vars == <<site_config, response, pc, containers, idx, outcomes, articles,
          result, fetches, get_timeout, call, ret, html_write, log, mpc, site,
          all_articles>>

\* the locals of main
mainVars == <<mpc, site, all_articles>>

NoCall == [fn |-> "scrape_news"]

Init ==
    /\ call = NoCall
    /\ ret = 0
    /\ site_config \in Configs
    /\ response \in FetchOutcomes
    /\ pc = "start"
    /\ containers = <<>>
    /\ idx = 1
    /\ outcomes = <<>>
    /\ articles = <<>>
    /\ result = <<>>
    /\ fetches = 0
    /\ get_timeout = 0
    /\ html_write \in {"ok", "fails"}
    /\ log = <<>>
    /\ mpc = "none"
    /\ site = 0
    /\ all_articles = <<>>

\* UniversalNewsScraper.log: the message is printed when verbose, and the
\* prefix reads site_config['name']
LogRaises(cfg) == cfg.verbose /\ ~Has(cfg, "name")

\* a status check that lets client errors through
RaiseForStatusServerOnly(status) == 500 <= status /\ status < 600

\* response.raise_for_status(): HTTPError on a 4xx or 5xx status
RaiseForStatus(status) == 400 <= status /\ status < 600

\* lines 97-99: the handler of the outer try logs and returns []
SiteFailure ==
    /\ IF LogRaises(site_config)
       THEN pc' = "raised" /\ result' = result
       ELSE pc' = "done" /\ result' = <<>>

\* line 52, before the try
Start ==
    /\ pc = "start"
    /\ pc' = IF ~Has(site_config, "url") \/ LogRaises(site_config)
             THEN "raised" ELSE "fetch"
    /\ UNCHANGED <<call, ret, site_config, response, containers, idx, outcomes,
                   articles,
                   result, fetches, get_timeout, html_write, log, mainVars>>

\* line 56: timeout=20
FetchTimeout == 20

\* a fetch that is tried again after a failure
FetchRetrying ==
    /\ pc = "fetch"
    /\ fetches' = fetches + 1
    /\ get_timeout' = FetchTimeout
    /\ log' = Append(log, [ev |-> "fetch", site |-> site])
    /\ IF response.kind = "error" \/ RaiseForStatus(response.status)
       THEN IF fetches = 0 THEN pc' = "fetch" /\ result' = result
            ELSE SiteFailure
       ELSE pc' = "save_html" /\ result' = result
    /\ UNCHANGED <<call, ret, site_config, response, containers, idx, outcomes,
                   articles, html_write, mainVars>>

\* lines 56-57
Fetch ==
    /\ pc = "fetch"
    /\ fetches' = fetches + 1
    /\ get_timeout' = FetchTimeout
    /\ log' = Append(log, [ev |-> "fetch", site |-> site])
    /\ IF response.kind = "error" \/ RaiseForStatus(response.status)
       THEN SiteFailure
       ELSE pc' = "save_html" /\ result' = result
    /\ UNCHANGED <<call, ret, site_config, response, containers, idx, outcomes,
                   articles, html_write, mainVars>>

\* lines 60-61: save_html reads site_config['name'] and writes the file
SaveHtml ==
    /\ pc = "save_html"
    /\ html_write = "ok" \/ ~Has(site_config, "name")
    /\ IF ~Has(site_config, "name")
       THEN SiteFailure
       ELSE pc' = "select" /\ result' = result
    /\ UNCHANGED <<call, ret, site_config, response, containers, idx, outcomes,
                   articles,
                   fetches, get_timeout, html_write, log, mainVars>>

\* a save_html that swallows the failure of its write
SaveHtmlFailsSwallowed ==
    /\ pc = "save_html"
    /\ Has(site_config, "name")
    /\ html_write = "fails"
    /\ pc' = "select"
    /\ UNCHANGED <<call, ret, site_config, response, containers, idx, outcomes,
                   articles, result, fetches, get_timeout, html_write, log,
                   mainVars>>

\* lines 45-46 of save_html: the write of the debug file fails
SaveHtmlFails ==
    /\ pc = "save_html"
    /\ Has(site_config, "name")
    /\ html_write = "fails"
    /\ SiteFailure
    /\ UNCHANGED <<call, ret, site_config, response, containers, idx, outcomes,
                   articles,
                   fetches, get_timeout, html_write, log, mainVars>>

\* soup.select(selector): a str selects every matching node of the page in
\* document order
SelectAll(page, sel) == SelectSeq(page, LAMBDA n : Matches(n, sel))

\* lines 64-71: soup.select() takes a str; a list or a dict raises
SelectContainers ==
    /\ pc = "select"
    /\ IF Has(site_config, "article_container")
          /\ site_config.article_container.shape = "str"
       THEN /\ containers' = SelectAll(response.body, site_config.article_container.s)
            /\ pc' = "loop"
            /\ result' = result
       ELSE /\ SiteFailure
            /\ containers' = containers
    /\ UNCHANGED <<call, ret, site_config, response, idx, outcomes, articles,
                   fetches, get_timeout, html_write, log, mainVars>>

\* a loop without the try of lines 74-79 and 103-206: an exception raised
\* for one container reaches the handler of the outer try
ExtractNextAborting ==
    /\ pc = "loop"
    /\ idx <= Len(containers)
    /\ LET article == ExtractArticle(site_config, containers[idx])
       IN  IF article = Discarded("exception")
           THEN SiteFailure /\ UNCHANGED <<outcomes, articles>>
           ELSE /\ outcomes' = Append(outcomes, article)
                /\ articles' = IF article.kind = "article"
                               THEN Append(articles, article.a)
                               ELSE articles
                /\ UNCHANGED <<pc, result>>
    /\ idx' = idx + 1
    /\ UNCHANGED <<call, ret, site_config, response, containers, fetches,
                   get_timeout, html_write, log, mainVars>>

\* lines 73-79: one turn of the loop
ExtractNext ==
    /\ pc = "loop"
    /\ idx <= Len(containers)
    /\ LET article == ExtractArticle(site_config, containers[idx])
       IN  /\ outcomes' = Append(outcomes, article)
           /\ articles' = IF article.kind = "article"
                          THEN Append(articles, article.a)
                          ELSE articles
    /\ idx' = idx + 1
    /\ UNCHANGED <<call, ret, site_config, response, pc, containers, result,
                   fetches, get_timeout, html_write, log, mainVars>>

RECURSIVE UniqueLoopSeenLast(_, _, _)
\* a loop that remembers only the link it saw last
UniqueLoopSeenLast(rest, seen_urls, unique_articles) ==
    IF rest = <<>> THEN unique_articles
    ELSE LET article == Head(rest)
         IN  IF article.link \notin seen_urls
             THEN UniqueLoopSeenLast(Tail(rest), {article.link},
                                     Append(unique_articles, article))
             ELSE UniqueLoopSeenLast(Tail(rest), seen_urls, unique_articles)

RECURSIVE UniqueLoop(_, _, _)
\* lines 86-89
UniqueLoop(rest, seen_urls, unique_articles) ==
    IF rest = <<>> THEN unique_articles
    ELSE LET article == Head(rest)
         IN  IF article.link \notin seen_urls
             THEN UniqueLoop(Tail(rest), seen_urls \cup {article.link},
                             Append(unique_articles, article))
             ELSE UniqueLoop(Tail(rest), seen_urls, unique_articles)

\* a filter that rebuilds each kept article from the eight extracted fields
RemoveDuplicatesStandardFields(arts) ==
    LET kept == UniqueLoop(arts, {}, <<>>)
        std == {"title", "link", "summary", "publish_date", "category", "author",
                "image_url", "source"}
    IN  [k \in 1..Len(kept) |-> [f \in std \cap DOMAIN kept[k] |-> kept[k][f]]]

\* a filter that keeps every article
RemoveDuplicatesKeepAll(arts) == arts

\* lines 83-91
RemoveDuplicates(arts) == UniqueLoop(arts, {}, <<>>)

\* a configuration lookup that ignores the remove_duplicates key
RemoveDuplicatesAlways(cfg) == TRUE

\* self.site_config.get('remove_duplicates', True)
RemoveDuplicatesOn(cfg) ==
    IF Has(cfg, "remove_duplicates") THEN cfg.remove_duplicates ELSE TRUE

\* article['link'] of line 87 is a KeyError on a record without the key
LinkKeyError(arts) == \E i \in 1..Len(arts) : ~Has(arts[i], "link")

\* lines 82-91, after the loop
Dedup ==
    /\ pc = "loop"
    /\ idx > Len(containers)
    /\ IF ~RemoveDuplicatesOn(site_config)
       THEN pc' = "return" /\ UNCHANGED <<articles, result>>
       ELSE IF LinkKeyError(articles)
       THEN SiteFailure /\ UNCHANGED articles
       ELSE /\ articles' = RemoveDuplicates(articles)
            /\ pc' = "return"
            /\ result' = result
    /\ UNCHANGED <<call, ret, site_config, response, containers, idx, outcomes,
                   fetches, get_timeout, html_write, log, mainVars>>

\* lines 93-95
Return ==
    /\ pc = "return"
    /\ result' = articles
    /\ pc' = "done"
    /\ UNCHANGED <<call, ret, site_config, response, containers, idx, outcomes,
                   articles,
                   fetches, get_timeout, html_write, log, mainVars>>

Next ==
    \/ Start
    \/ Fetch
    \/ SaveHtml
    \/ SaveHtmlFails
    \/ SelectContainers
    \/ ExtractNext
    \/ Dedup
    \/ Return

Spec == Init /\ [][Next]_vars

(***************************************************************************)
(* _find_element on its own: every node of the pool against every          *)
(* descriptor built from a few selectors.                                  *)
(***************************************************************************)
MaxSelectors == 3

CssSelectors ==
    {Css("h2", ""), Css("h3", ""), Css("a", ""), Css("", "t"), Css("", "zz")}

\* the entries a dict descriptor is built from: a list or a str under 'css',
\* a tag name, a class name, an attribute map, and a key the code ignores
KeyedEntries ==
    {Entry("css", Fallback(<<Css("", "zz"), Css("h2", "")>>)),
     Entry("css", Simple(Css("h3", ""))),
     Entry("tag", "h3"), Entry("tag", "a"),
     Entry("class", "t"), Entry("class", "zz"),
     Entry("attrs", Href(<<"/", "y">>)), Entry("attrs", Href(<<"/", "q">>)),
     Entry("xpath", "h2")}

\* a dict has each key once
DistinctKeys(entries) ==
    \A i, j \in 1..Len(entries) : entries[i].k = entries[j].k => i = j

Descriptors ==
    {Simple(sel) : sel \in CssSelectors}
        \cup {Fallback(l) : l \in SeqsUpTo(CssSelectors, MaxSelectors)}
        \cup {Keyed(d) : d \in {e \in SeqsUpTo(KeyedEntries, MaxSelectors) : DistinctKeys(e)}}

InitResolver ==
    /\ call \in {[fn |-> "_find_element", container |-> n, selector_config |-> d] :
                    n \in Nodes, d \in Descriptors}
    /\ ret = 0
    /\ pc = "call"
    /\ site_config = CfgPlain
    /\ response = [kind |-> "error", status |-> 0, body |-> <<>>]
    /\ containers = <<>>
    /\ idx = 1
    /\ outcomes = <<>>
    /\ articles = <<>>
    /\ result = <<>>
    /\ fetches = 0
    /\ get_timeout = 0
    /\ html_write = "ok"
    /\ log = <<>>
    /\ mpc = "none"
    /\ site = 0
    /\ all_articles = <<>>

\* one call of _find_element(container, selector_config)
Resolve ==
    /\ pc = "call"
    /\ call.fn = "_find_element"
    /\ ret' = FindElement(call.container.els, call.selector_config)
    /\ pc' = "returned"
    /\ UNCHANGED <<call, site_config, response, containers, idx, outcomes,
                   articles, result, fetches, get_timeout, html_write, log, mainVars>>

NextResolver == Resolve

SpecResolver == InitResolver /\ [][NextResolver]_vars

(***************************************************************************)
(* _parse_relative_date on its own: "<N> <unit> ago" for every unit form   *)
(* and a range of N, the literals, and texts of other kinds.               *)
(***************************************************************************)
MaxAgo == 11

RECURSIVE ToDecimal(_)
\* str(n) for n >= 0
ToDecimal(n) ==
    IF n < 10 THEN <<Digits[n + 1]>>
    ELSE ToDecimal(n \div 10) \o <<Digits[(n % 10) + 1]>>

\* the unit forms of a relative date, each with its length in minutes
UnitForms ==
    {[w |-> <<" ", "m", "i", "n", "u", "t", "e", " ", "a", "g", "o">>,
      unit |-> 1],
     [w |-> <<" ", "m", "i", "n", "u", "t", "e", "s", " ", "a", "g", "o">>,
      unit |-> 1],
     [w |-> <<" ", "m", "i", "n", " ", "a", "g", "o">>,
      unit |-> 1],
     [w |-> <<" ", "m", "i", "n", "s", " ", "a", "g", "o">>,
      unit |-> 1],
     [w |-> <<" ", "h", "o", "u", "r", " ", "a", "g", "o">>,
      unit |-> 60],
     [w |-> <<" ", "h", "o", "u", "r", "s", " ", "a", "g", "o">>,
      unit |-> 60],
     [w |-> <<" ", "h", "r", " ", "a", "g", "o">>,
      unit |-> 60],
     [w |-> <<" ", "h", "r", "s", " ", "a", "g", "o">>,
      unit |-> 60],
     [w |-> <<" ", "d", "a", "y", " ", "a", "g", "o">>,
      unit |-> 1440],
     [w |-> <<" ", "d", "a", "y", "s", " ", "a", "g", "o">>,
      unit |-> 1440]}

Ago(n, form) == ToDecimal(n) \o form.w

\* None or the empty string, the literals, dates in other formats, a count
\* too large for datetime
OtherDateTexts ==
    {<<>>,
     <<"y", "e", "s", "t", "e", "r", "d", "a", "y">>,
     <<"t", "o", "d", "a", "y">>,
     <<"Y", "e", "s", "t", "e", "r", "d", "a", "y">>,
     <<"g", "a", "r", "b", "a", "g", "e", " ", "t", "e", "x", "t">>,
     <<"J", "a", "n", " ", "5">>,
     <<" ", "j", "a", "n", " ", "5", " ">>,
     <<"f", "r", "i", "d", "a", "y", " ", "5">>,
     <<"a", "n", " ", "h", "o", "u", "r", " ", "a", "g", "o">>,
     <<"5", " ", "M", "i", "n", "u", "t", "e", "s", " ", "A", "g", "o">>,
     <<"9", "9", "9", "9", "9", "9", " ", "d", "a", "y", "s", " ", "a", "g", "o">>}

DateTexts ==
    {Ago(n, form) : n \in 0..MaxAgo, form \in UnitForms} \cup OtherDateTexts

InitDates ==
    /\ call \in {[fn |-> "_parse_relative_date", date_text |-> t] : t \in DateTexts}
    /\ ret = 0
    /\ pc = "call"
    /\ site_config = CfgPlain
    /\ response = [kind |-> "error", status |-> 0, body |-> <<>>]
    /\ containers = <<>>
    /\ idx = 1
    /\ outcomes = <<>>
    /\ articles = <<>>
    /\ result = <<>>
    /\ fetches = 0
    /\ get_timeout = 0
    /\ html_write = "ok"
    /\ log = <<>>
    /\ mpc = "none"
    /\ site = 0
    /\ all_articles = <<>>

\* one call of _parse_relative_date(date_text)
ParseDate ==
    /\ pc = "call"
    /\ call.fn = "_parse_relative_date"
    /\ ret' = ParseRelativeDate(call.date_text)
    /\ pc' = "returned"
    /\ UNCHANGED <<call, site_config, response, containers, idx, outcomes,
                   articles, result, fetches, get_timeout, html_write, log, mainVars>>

NextDates == ParseDate

SpecDates == InitDates /\ [][NextDates]_vars

(***************************************************************************)
(* _extract_article_from_container on its own: the cards of the page pool  *)
(* and cards with every arrangement of an image, under the configurations  *)
(* that carry selectors.                                                   *)
(***************************************************************************)
\* a card with a headline, a link and the given image elements, whose
\* parents are given relative to the card's own element list
ImageCard(imgs) ==
    Node({"card"},
         <<Elem("h2", 0, {}, <<"I">>, NoAttrs),
           Elem("a", 0, {}, <<"I">>, Href(<<"/", "i">>))>> \o imgs,
         "same")

Src(l) == [src |-> l]

DataSrc(l) == [n \in {"data-src"} |-> l]

SrcAndDataSrc(l, m) == [n \in {"src", "data-src"} |-> IF n = "src" THEN l ELSE m]

ImageCards ==
    {ImageCard(<<Elem("img", 0, {"pic"}, <<>>, Src(<<"/", "1">>))>>),
     ImageCard(<<Elem("img", 0, {"pic"}, <<>>, SrcAndDataSrc(<<"/", "1">>, <<"/", "2">>))>>),
     ImageCard(<<Elem("img", 0, {"pic"}, <<>>, SrcAndDataSrc(<<>>, <<"/", "2">>))>>),
     ImageCard(<<Elem("img", 0, {"pic"}, <<>>, DataSrc(<<"2">>))>>),
     ImageCard(<<Elem("img", 0, {"pic"}, <<>>, NoAttrs)>>),
     ImageCard(<<Elem("div", 0, {"pic"}, <<>>, Src(<<"/", "0">>)),
                 Elem("span", 3, {}, <<>>, NoAttrs),
                 Elem("img", 4, {}, <<>>, DataSrc(<<"/", "2">>)),
                 Elem("img", 3, {}, <<>>, Src(<<"/", "1">>))>>),
     ImageCard(<<Elem("div", 0, {"pic"}, <<>>, NoAttrs),
                 Elem("img", 3, {}, <<>>,
                      Src(<<"h", "t", "t", "p", ":", "/", "/", "c", "/", "1">>))>>),
     ImageCard(<<Elem("div", 0, {"pic"}, <<>>, NoAttrs),
                 Elem("img", 0, {}, <<>>, Src(<<"/", "1">>))>>)}

\* a configuration with an image selector
CfgImage ==
    [CfgPlain EXCEPT !.selectors = PlainSelectors @@ [image |-> Simple(Css("", "pic"))]]

\* the same with a fallback list reaching any img
CfgImageFallback ==
    [CfgPlain EXCEPT !.selectors =
        PlainSelectors @@ [image |-> Fallback(<<Css("", "zz"), Css("img", "")>>)]]

ExtractorConfigs ==
    {CfgImage, CfgImageFallback, CfgPlain, CfgBbc, CfgHookKeep, CfgFallback, CfgKeyed}

InitExtractor ==
    /\ call \in {[fn |-> "_extract_article_from_container", container |-> n] :
                    n \in Nodes \cup ImageCards}
    /\ site_config \in ExtractorConfigs
    /\ ret = 0
    /\ pc = "call"
    /\ response = [kind |-> "error", status |-> 0, body |-> <<>>]
    /\ containers = <<>>
    /\ idx = 1
    /\ outcomes = <<>>
    /\ articles = <<>>
    /\ result = <<>>
    /\ fetches = 0
    /\ get_timeout = 0
    /\ html_write = "ok"
    /\ log = <<>>
    /\ mpc = "none"
    /\ site = 0
    /\ all_articles = <<>>

\* one call of _extract_article_from_container(container)
Extract ==
    /\ pc = "call"
    /\ call.fn = "_extract_article_from_container"
    /\ ret' = ExtractArticle(site_config, call.container)
    /\ pc' = "returned"
    /\ UNCHANGED <<call, site_config, response, containers, idx, outcomes,
                   articles, result, fetches, get_timeout, html_write, log,
                   mainVars>>

NextExtractor == Extract

SpecExtractor == InitExtractor /\ [][NextExtractor]_vars

(***************************************************************************)
(* The regular expressions and strptime formats of the site date parsers.  *)
(* A pattern is a sequence of items: a run of a character class with its   *)
(* repetition bounds, an alternation of literals, an optional literal, the *)
(* end of the string.  In every pattern of the source the item after a     *)
(* class run starts outside that class and no literal of an alternation    *)
(* is a prefix of another, so the greedy scan below finds the match that   *)
(* re finds.                                                               *)
(***************************************************************************)
IsAlpha(c) == \E i \in 1..26 : UpperCase[i] = c \/ LowerCase[i] = c

InClass(cls, c) ==
    CASE cls = "d" -> IsDigit(c)
      [] cls = "a" -> IsAlpha(c)
      [] cls = "w" -> IsAlpha(c) \/ IsDigit(c) \/ c = "_"
      [] cls = "s" -> c \in Whitespace

\* \d{lo,hi}, \s{lo,hi}, ...
Cls(cls, lo, hi) ==
    [t |-> "cls", cls |-> cls, lo |-> lo, hi |-> <<hi>>, alts |-> {}, ci |-> FALSE]

\* \d+, \s*, \w+, ...
Many(cls, lo) ==
    [t |-> "cls", cls |-> cls, lo |-> lo, hi |-> <<>>, alts |-> {}, ci |-> FALSE]

\* (a|b|c)
Lit(alts) ==
    [t |-> "lit", cls |-> "", lo |-> 0, hi |-> <<>>, alts |-> alts, ci |-> FALSE]

\* (a|b|c) under re.IGNORECASE
LitCI(alts) ==
    [t |-> "lit", cls |-> "", lo |-> 0, hi |-> <<>>, alts |-> alts, ci |-> TRUE]

\* (a|b)? under re.IGNORECASE
OptCI(alts) ==
    [t |-> "opt", cls |-> "", lo |-> 0, hi |-> <<>>, alts |-> alts, ci |-> TRUE]

\* $, and the end of the input that strptime requires
End ==
    [t |-> "end", cls |-> "", lo |-> 0, hi |-> <<>>, alts |-> {}, ci |-> FALSE]

Ch(c) == Lit({<<c>>})

\* the length of the run of class cls that starts at s[i]
RunLen(s, i, cls) ==
    LET stops == {j \in i..Len(s) : ~InClass(cls, s[j])}
    IN  IF stops = {} THEN Len(s) - i + 1
        ELSE (CHOOSE j \in stops : \A k \in stops : j <= k) - i

StartsWith(s, i, lit, ci) ==
    /\ i + Len(lit) - 1 <= Len(s)
    /\ IF ci THEN Lower(SubSeq(s, i, i + Len(lit) - 1)) = Lower(lit)
       ELSE SubSeq(s, i, i + Len(lit) - 1) = lit

NoMatch == [ok |-> FALSE, caps |-> <<>>]

RECURSIVE Scan(_, _, _, _)
\* match pat against s from position i; caps collects the text each item
\* consumed
Scan(pat, s, i, caps) ==
    IF pat = <<>> THEN [ok |-> TRUE, caps |-> caps]
    ELSE LET it == Head(pat)
         IN  CASE it.t = "cls" ->
                    LET run == RunLen(s, i, it.cls)
                        n == IF it.hi # <<>> /\ run > it.hi[1] THEN it.hi[1] ELSE run
                    IN  IF n >= it.lo
                        THEN Scan(Tail(pat), s, i + n,
                                  Append(caps, SubSeq(s, i, i + n - 1)))
                        ELSE NoMatch
               [] it.t \in {"lit", "opt"} ->
                    LET hits == {a \in it.alts : StartsWith(s, i, a, it.ci)}
                    IN  IF hits # {}
                        THEN LET n == Len(CHOOSE a \in hits : TRUE)
                             IN  Scan(Tail(pat), s, i + n,
                                      Append(caps, SubSeq(s, i, i + n - 1)))
                        ELSE IF it.t = "opt"
                        THEN Scan(Tail(pat), s, i, Append(caps, <<>>))
                        ELSE NoMatch
               [] it.t = "end" ->
                    IF i = Len(s) + 1 THEN Scan(Tail(pat), s, i, Append(caps, <<>>))
                    ELSE NoMatch

\* re.match(pat, s)
ReMatch(pat, s) == Scan(pat, s, 1, <<>>)

\* re.search(pat, s) finds a match
ReSearch(pat, s) == \E i \in 1..(Len(s) + 1) : Scan(pat, s, i, <<>>).ok

\* datetime.isoformat() of a datetime read from a string
At(y, mo, d, h, mi, sec) ==
    [k |-> "at", y |-> y, mo |-> mo, d |-> d, h |-> h, mi |-> mi, sec |-> sec]

LeapYear(y) == (y % 4 = 0 /\ y % 100 # 0) \/ y % 400 = 0

DaysIn(mo, y) ==
    IF mo = 2 THEN (IF LeapYear(y) THEN 29 ELSE 28)
    ELSE IF mo \in {4, 6, 9, 11} THEN 30 ELSE 31

\* the field values datetime accepts
ValidDateTime(y, mo, d, h, mi, sec) ==
    /\ y >= 1
    /\ mo \in 1..12
    /\ d >= 1 /\ d <= DaysIn(mo, y)
    /\ h \in 0..23
    /\ mi \in 0..59
    /\ sec \in 0..59

FullMonths ==
    {<<"J", "a", "n", "u", "a", "r", "y">>,
     <<"F", "e", "b", "r", "u", "a", "r", "y">>,
     <<"M", "a", "r", "c", "h">>,
     <<"A", "p", "r", "i", "l">>,
     <<"M", "a", "y">>,
     <<"J", "u", "n", "e">>,
     <<"J", "u", "l", "y">>,
     <<"A", "u", "g", "u", "s", "t">>,
     <<"S", "e", "p", "t", "e", "m", "b", "e", "r">>,
     <<"O", "c", "t", "o", "b", "e", "r">>,
     <<"N", "o", "v", "e", "m", "b", "e", "r">>,
     <<"D", "e", "c", "e", "m", "b", "e", "r">>}

MonthNumbers ==
    {[n |-> <<"j", "a", "n", "u", "a", "r", "y">>, m |-> 1],
     [n |-> <<"f", "e", "b", "r", "u", "a", "r", "y">>, m |-> 2],
     [n |-> <<"m", "a", "r", "c", "h">>, m |-> 3],
     [n |-> <<"a", "p", "r", "i", "l">>, m |-> 4],
     [n |-> <<"m", "a", "y">>, m |-> 5],
     [n |-> <<"j", "u", "n", "e">>, m |-> 6],
     [n |-> <<"j", "u", "l", "y">>, m |-> 7],
     [n |-> <<"a", "u", "g", "u", "s", "t">>, m |-> 8],
     [n |-> <<"s", "e", "p", "t", "e", "m", "b", "e", "r">>, m |-> 9],
     [n |-> <<"o", "c", "t", "o", "b", "e", "r">>, m |-> 10],
     [n |-> <<"n", "o", "v", "e", "m", "b", "e", "r">>, m |-> 11],
     [n |-> <<"d", "e", "c", "e", "m", "b", "e", "r">>, m |-> 12],
     [n |-> <<"j", "a", "n">>, m |-> 1],
     [n |-> <<"f", "e", "b">>, m |-> 2],
     [n |-> <<"m", "a", "r">>, m |-> 3],
     [n |-> <<"a", "p", "r">>, m |-> 4],
     [n |-> <<"j", "u", "n">>, m |-> 6],
     [n |-> <<"j", "u", "l">>, m |-> 7],
     [n |-> <<"a", "u", "g">>, m |-> 8],
     [n |-> <<"s", "e", "p">>, m |-> 9],
     [n |-> <<"o", "c", "t">>, m |-> 10],
     [n |-> <<"n", "o", "v">>, m |-> 11],
     [n |-> <<"d", "e", "c">>, m |-> 12]}

\* the number of a month name in either letter case, 0 if it is none
MonthOf(name) ==
    LET hits == {e \in MonthNumbers : e.n = Lower(name)}
    IN  IF hits = {} THEN 0 ELSE (CHOOSE e \in hits : TRUE).m

\* the result of strptime: a datetime, or ValueError
Parsed(y, mo, d, h, mi, sec) ==
    IF ValidDateTime(y, mo, d, h, mi, sec) THEN At(y, mo, d, h, mi, sec)
    ELSE DateRaise

\* datetime.strptime(s, '%Y-%m-%dT%H:%M:%S')
StrptimeIso(s) ==
    LET r == ReMatch(<<Cls("d", 4, 4), Ch("-"), Cls("d", 1, 2), Ch("-"),
                       Cls("d", 1, 2), Ch("T"), Cls("d", 1, 2), Ch(":"),
                       Cls("d", 1, 2), Ch(":"), Cls("d", 1, 2), End>>, s)
    IN  IF r.ok
        THEN Parsed(DecimalValue(r.caps[1]), DecimalValue(r.caps[3]),
                    DecimalValue(r.caps[5]), DecimalValue(r.caps[7]),
                    DecimalValue(r.caps[9]), DecimalValue(r.caps[11]))
        ELSE DateRaise

\* datetime.strptime(s, '%Y-%m-%d')
StrptimeDay(s) ==
    LET r == ReMatch(<<Cls("d", 4, 4), Ch("-"), Cls("d", 1, 2), Ch("-"),
                       Cls("d", 1, 2), End>>, s)
    IN  IF r.ok
        THEN Parsed(DecimalValue(r.caps[1]), DecimalValue(r.caps[3]),
                    DecimalValue(r.caps[5]), 0, 0, 0)
        ELSE DateRaise

\* datetime.strptime(s, '%d %b %Y')
StrptimeDayMonYear(s) ==
    LET r == ReMatch(<<Cls("d", 1, 2), Many("s", 1),
                       LitCI({SubSeq(m, 1, 3) : m \in FullMonths}), Many("s", 1),
                       Cls("d", 4, 4), End>>, s)
    IN  IF r.ok
        THEN Parsed(DecimalValue(r.caps[5]), MonthOf(r.caps[3]),
                    DecimalValue(r.caps[1]), 0, 0, 0)
        ELSE DateRaise

\* datetime.strptime(s, '%B %d, %Y')
StrptimeMonthDayYear(s) ==
    LET r == ReMatch(<<LitCI(FullMonths), Many("s", 1), Cls("d", 1, 2), Ch(","),
                       Many("s", 1), Cls("d", 4, 4), End>>, s)
    IN  IF r.ok
        THEN Parsed(DecimalValue(r.caps[6]), MonthOf(r.caps[1]),
                    DecimalValue(r.caps[3]), 0, 0, 0)
        ELSE DateRaise

\* \d{4}-\d{2}-\d{2}T\d{2}:\d{2}:\d{2}
IsoPattern ==
    <<Cls("d", 4, 4), Ch("-"), Cls("d", 2, 2), Ch("-"), Cls("d", 2, 2), Ch("T"),
      Cls("d", 2, 2), Ch(":"), Cls("d", 2, 2), Ch(":"), Cls("d", 2, 2)>>

\* [+-]\d{2}:\d{2}
OffsetPattern ==
    <<Lit({<<"+">>, <<"-">>}), Cls("d", 2, 2), Ch(":"), Cls("d", 2, 2)>>

\* re.sub(r'[+-]\d{2}:\d{2}$', '', s)
DropOffset(s) ==
    IF Len(s) >= 6 /\ Scan(OffsetPattern \o <<End>>, s, Len(s) - 5, <<>>).ok
    THEN SubSeq(s, 1, Len(s) - 6)
    ELSE s

\* a parser argument: None, or a string
NoneArg == [none |-> TRUE, s |-> <<>>]

StrArg(s) == [none |-> FALSE, s |-> s]

\* `not date_str`
Falsy(arg) == arg.none \/ arg.s = <<>>

\* the try ... except: pass around an arm
Swallow(r, otherwise) == IF r.k = "raise" THEN otherwise ELSE r

\* parse_bbc_date of site_configs/bbc_config.py
ParseBbcDate(arg) ==
    IF Falsy(arg) THEN DateNone
    ELSE LET date_str == Strip(Lower(arg.s))
         IN  IF Contains(date_str, <<"h", "r", "s", " ", "a", "g", "o">>)
                   \/ Contains(date_str, <<"h", "r", " ", "a", "g", "o">>)
             THEN Swallow(LegacyArm(date_str, 60), DateStr(date_str))
             ELSE IF Contains(date_str, <<"m", "i", "n", "s", " ", "a", "g", "o">>)
                        \/ Contains(date_str, <<"m", "i", "n", " ", "a", "g", "o">>)
             THEN Swallow(LegacyArm(date_str, 1), DateStr(date_str))
             ELSE IF Contains(date_str, <<"d", "a", "y", "s", " ", "a", "g", "o">>)
                        \/ Contains(date_str, <<"d", "a", "y", " ", "a", "g", "o">>)
             THEN Swallow(LegacyArm(date_str, 1440), DateStr(date_str))
             ELSE IF Contains(date_str, <<"y", "e", "s", "t", "e", "r", "d", "a", "y">>)
             THEN IsoBefore(1440)
             ELSE IF Contains(date_str, <<"t", "o", "d", "a", "y">>)
             THEN IsoBefore(0)
             ELSE DateStr(date_str)

RECURSIVE FirstParsed(_, _)
\* the loop over formats: the first format that parses, else the string
FirstParsed(tries, date_str) ==
    IF tries = <<>> THEN DateStr(date_str)
    ELSE Swallow(Head(tries), FirstParsed(Tail(tries), date_str))

\* parse_aws_date of site_configs/aws_config.py
ParseAwsDate(arg) ==
    IF Falsy(arg) THEN DateNone
    ELSE LET date_str == arg.s
             formats == <<StrptimeIso(date_str), StrptimeDay(date_str),
                          StrptimeDayMonYear(date_str),
                          StrptimeMonthDayYear(date_str)>>
         IN  IF ReMatch(IsoPattern \o OffsetPattern, date_str).ok
             THEN Swallow(StrptimeIso(DropOffset(date_str)),
                          FirstParsed(formats, date_str))
             ELSE FirstParsed(formats, date_str)

RECURSIVE RStripZ(_)
\* str.rstrip('Z')
RStripZ(s) ==
    IF s # <<>> /\ s[Len(s)] = "Z" THEN RStripZ(SubSeq(s, 1, Len(s) - 1)) ELSE s

\* (\d+)\s*(minute|hour|day)s?\s*ago under re.IGNORECASE
TimeAgoPattern ==
    <<Many("d", 1), Many("s", 0),
      LitCI({<<"m", "i", "n", "u", "t", "e">>, <<"h", "o", "u", "r">>, <<"d", "a", "y">>}),
      OptCI({<<"s">>}), Many("s", 0), LitCI({<<"a", "g", "o">>})>>

\* lines 58-66
TimeAgo(caps) ==
    LET value == DecimalValue(caps[1])
        unit == Lower(caps[3])
    IN  IF Contains(unit, <<"m", "i", "n", "u", "t", "e">>) THEN IsoBefore(value)
        ELSE IF Contains(unit, <<"h", "o", "u", "r">>) THEN IsoBefore(value * 60)
        ELSE IsoBefore(value * 1440)

\* line 70: (?:May|Jun|Jul|Aug|Sep|Oct|Nov|Dec)\s+\d{1,2},\s+\d{4}\s+·\s+
\* (\d{1,2}:\d{2}\s+(?:AM|PM)\s+\w+)
TimePattern ==
    <<Lit({<<"M", "a", "y">>,
         <<"J", "u", "n">>,
         <<"J", "u", "l">>,
         <<"A", "u", "g">>,
         <<"S", "e", "p">>,
         <<"O", "c", "t">>,
         <<"N", "o", "v">>,
         <<"D", "e", "c">>}),
      Many("s", 1), Cls("d", 1, 2), Ch(","), Many("s", 1), Cls("d", 4, 4),
      Many("s", 1), Ch("middot"), Many("s", 1), Cls("d", 1, 2), Ch(":"),
      Cls("d", 2, 2), Many("s", 1), Lit({<<"A", "M">>, <<"P", "M">>}),
      Many("s", 1), Many("w", 1)>>

\* line 79: ([A-Za-z]+)\s+(\d{1,2}),\s+(\d{4})\s+·\s+(\d{1,2}:\d{2})\s+(AM|PM)
\* \s+(\w+)
FullPattern ==
    <<Many("a", 1), Many("s", 1), Cls("d", 1, 2), Ch(","), Many("s", 1),
      Cls("d", 4, 4), Many("s", 1), Ch("middot"), Many("s", 1), Cls("d", 1, 2),
      Ch(":"), Cls("d", 2, 2), Many("s", 1), Lit({<<"A", "M">>, <<"P", "M">>}),
      Many("s", 1), Many("w", 1)>>

\* strptime(f"{year}-{month:02d}-{day:02d} {time_str} {am_pm}",
\* '%Y-%m-%d %I:%M %p'): %Y wants four digits and int(year) is written
\* without padding, %I is an hour of the 12-hour clock
StrptimeTwelveHour(year, month, day, hour, minute, am_pm) ==
    IF year >= 1000 /\ hour \in 1..12
    THEN Parsed(year, month, day,
                (hour % 12) + (IF am_pm = <<"P", "M">> THEN 12 ELSE 0), minute, 0)
    ELSE DateRaise

\* lines 81-106
FullDate(caps, date_str) ==
    LET month == MonthOf(caps[1])
    IN  IF month # 0
        THEN Swallow(StrptimeTwelveHour(DecimalValue(caps[6]), month,
                                        DecimalValue(caps[3]),
                                        DecimalValue(caps[10]),
                                        DecimalValue(caps[12]), caps[14]),
                     DateStr(date_str))
        ELSE DateStr(date_str)

\* lines 69-109
ReutersNamedDate(date_str) ==
    IF ReSearch(TimePattern, date_str) THEN IsoBefore(0)
    ELSE IF ReMatch(FullPattern, date_str).ok
    THEN FullDate(ReMatch(FullPattern, date_str).caps, date_str)
    ELSE DateStr(date_str)

\* lines 56-66
ReutersTimeAgo(date_str) ==
    IF ReMatch(TimeAgoPattern, date_str).ok
    THEN TimeAgo(ReMatch(TimeAgoPattern, date_str).caps)
    ELSE ReutersNamedDate(date_str)

\* lines 45-54
ReutersIsoOffset(date_str) ==
    IF ReMatch(IsoPattern \o OffsetPattern, date_str).ok
    THEN Swallow(StrptimeIso(DropOffset(date_str)), ReutersTimeAgo(date_str))
    ELSE ReutersTimeAgo(date_str)

\* parse_reuters_date of site_configs/reuters_config.py
ParseReutersDate(arg) ==
    IF Falsy(arg) THEN DateNone
    ELSE LET date_str == Strip(arg.s)
         IN  IF ReMatch(IsoPattern \o <<Ch("Z")>>, date_str).ok
             THEN Swallow(StrptimeIso(RStripZ(date_str)), ReutersIsoOffset(date_str))
             ELSE ReutersIsoOffset(date_str)

\* parse_bbc_date of news_scraper_configs.py, called with None or a string:
\* `'hrs ago' in None` is a TypeError
ParseBbcDateLegacyArg(arg) ==
    IF arg.none THEN DateRaise ELSE ParseBbcDateLegacy(arg.s)

\* parse_cnn_date of news_scraper_configs.py
ParseCnnDateArg(arg) ==
    IF arg.none THEN DateNone ELSE ParseCnnDate(arg.s)

(***************************************************************************)
(* main of news_scraper_main.py: the loop over the requested sites, each   *)
(* scraped by the scrape_news state machine above.                         *)
(*   call          the arguments: sites_to_scrape, --max-articles (<<>>    *)
(*                 when absent), --combine, --output; --verbose is off      *)
(*   mpc           "next" at the head of the for loop, "scraping" inside   *)
(*                 scraper.scrape_news(), "exit" after main returned,      *)
(*                 "crashed" after an exception left main                  *)
(*   site          the position of the current site in sites_to_scrape     *)
(*   all_articles  the combined results                                    *)
(*   log           what happened, in order: per site its begin, its fetch, *)
(*                 the files written, the extension of all_articles, its   *)
(*                 end; then the combined files                            *)
(***************************************************************************)
MaxSites == 2

SiteKeys == {"bbc", "cnn", "draft"}

\* get_site_config(site_key): a working configuration, one whose
\* article_container is a list, one that lacks its url
GetSiteConfig(site_key) ==
    CASE site_key = "bbc" -> CfgBbc
      [] site_key = "cnn" -> CfgListContainer
      [] site_key = "draft" -> CfgEmpty

\* what a site's fetch and debug write end in during one run
SiteWorlds ==
    {[response |-> [kind |-> "error", status |-> 0, body |-> <<>>],
      html_write |-> "ok"],
     [response |-> [kind |-> "response", status |-> 200,
                    body |-> <<CardX, CardY, CardNested>>],
      html_write |-> "ok"],
     [response |-> [kind |-> "response", status |-> 200,
                    body |-> <<CardX, CardY, CardNested>>],
      html_write |-> "fails"],
     [response |-> [kind |-> "response", status |-> 200, body |-> <<NavBlock>>],
      html_write |-> "ok"]}

MaxArticlesArgs == {<<>>, <<0>>, <<1>>, <<2>>}

MainCalls ==
    {[fn |-> "main", sites |-> s, max_articles |-> m, combine |-> c,
      output |-> o, verbose |-> FALSE] :
        s \in SeqsUpTo(SiteKeys, MaxSites) \ {<<>>}, m \in MaxArticlesArgs,
        c \in BOOLEAN, o \in {"json", "csv", "both"}}

InitMain ==
    /\ call \in MainCalls
    /\ ret = 0
    /\ site_config = CfgPlain
    /\ response = [kind |-> "error", status |-> 0, body |-> <<>>]
    /\ pc = "done"
    /\ containers = <<>>
    /\ idx = 1
    /\ outcomes = <<>>
    /\ articles = <<>>
    /\ result = <<>>
    /\ fetches = 0
    /\ get_timeout = 0
    /\ html_write = "ok"
    /\ log = <<>>
    /\ mpc = "next"
    /\ site = 0
    /\ all_articles = <<>>

\* lines 80-91: the next site's configuration and scraper, up to the call
\* of scrape_news
BeginSite ==
    /\ mpc = "next"
    /\ site < Len(call.sites)
    /\ site' = site + 1
    /\ site_config' = [GetSiteConfig(call.sites[site + 1])
                          EXCEPT !.verbose = call.verbose]
    /\ \E w \in SiteWorlds : response' = w.response /\ html_write' = w.html_write
    /\ pc' = "start"
    /\ containers' = <<>>
    /\ idx' = 1
    /\ outcomes' = <<>>
    /\ articles' = <<>>
    /\ result' = <<>>
    /\ fetches' = 0
    /\ get_timeout' = 0
    /\ log' = Append(log, [ev |-> "begin", site |-> site + 1])
    /\ mpc' = "scraping"
    /\ UNCHANGED <<call, ret, all_articles>>

\* lines 94-95: `if args.max_articles and len(articles) > args.max_articles`
\* then articles[:args.max_articles]
Limited(arts, max_articles) ==
    IF max_articles # <<>> /\ max_articles[1] # 0 /\ Len(arts) > max_articles[1]
    THEN IF max_articles[1] > 0 THEN SubSeq(arts, 1, max_articles[1])
         ELSE SubSeq(arts, 1, Len(arts) + max_articles[1])
    ELSE arts

SiteEvent(ev, arts) ==
    [ev |-> ev, site |-> site, articles |-> arts, of |-> result]

SiteEnd(how) == [ev |-> "end", site |-> site, how |-> how]

\* the files lines 104-108 write, in order
SiteFiles ==
    IF call.combine THEN <<>>
    ELSE (IF call.output \in {"json", "both"} THEN <<"json">> ELSE <<>>)
            \o (IF call.output \in {"csv", "both"} THEN <<"csv">> ELSE <<>>)

\* lines 93-125, after scrape_news returned: limit, save, extend; a write
\* that fails raises into the handler of line 127
FinishSite ==
    /\ mpc = "scraping"
    /\ pc = "done"
    /\ LET limited == Limited(result, call.max_articles)
           files == [j \in 1..Len(SiteFiles) |-> SiteEvent(SiteFiles[j], limited)]
       IN  IF limited = <<>>
           THEN /\ log' = Append(log, SiteEnd("empty"))
                /\ all_articles' = all_articles
           ELSE \/ /\ log' = log \o files
                             \o <<SiteEvent("extend", limited), SiteEnd("saved")>>
                   /\ all_articles' = all_articles \o limited
                \/ \E failing \in 1..Len(files) :
                      /\ log' = log \o SubSeq(files, 1, failing - 1)
                                    \o <<SiteEnd("raised")>>
                      /\ all_articles' = all_articles
    /\ mpc' = "next"
    /\ UNCHANGED <<call, ret, site_config, response, pc, containers, idx,
                   outcomes, articles, result, fetches, get_timeout, html_write,
                   site>>

\* a main without the try of line 80: the exception leaves main
SiteRaisedPropagates ==
    /\ mpc = "scraping"
    /\ pc = "raised"
    /\ log' = Append(log, SiteEnd("raised"))
    /\ mpc' = "crashed"
    /\ UNCHANGED <<call, ret, site_config, response, pc, containers, idx,
                   outcomes, articles, result, fetches, get_timeout, html_write,
                   site, all_articles>>

\* lines 127-131: an exception that left scrape_news is printed
SiteRaised ==
    /\ mpc = "scraping"
    /\ pc = "raised"
    /\ log' = Append(log, SiteEnd("raised"))
    /\ mpc' = "next"
    /\ UNCHANGED <<call, ret, site_config, response, pc, containers, idx,
                   outcomes, articles, result, fetches, get_timeout, html_write,
                   site, all_articles>>

\* the files lines 144-148 write, in order
CombinedFiles ==
    IF call.combine /\ all_articles # <<>>
    THEN (IF call.output \in {"json", "both"} THEN <<"combined_json">> ELSE <<>>)
            \o (IF call.output \in {"csv", "both"} THEN <<"combined_csv">> ELSE <<>>)
    ELSE <<>>

\* lines 134-159, after the loop: the combined files, outside any try
Combine ==
    /\ mpc = "next"
    /\ site = Len(call.sites)
    /\ LET files == [j \in 1..Len(CombinedFiles) |->
                        [ev |-> CombinedFiles[j], site |-> site + 1,
                         articles |-> all_articles]]
       IN  \/ log' = log \o files /\ mpc' = "exit"
           \/ \E failing \in 1..Len(files) :
                 /\ log' = log \o SubSeq(files, 1, failing - 1)
                 /\ mpc' = "crashed"
    /\ UNCHANGED <<call, ret, site_config, response, pc, containers, idx,
                   outcomes, articles, result, fetches, get_timeout, html_write,
                   site, all_articles>>

NextMain ==
    \/ BeginSite
    \/ Start
    \/ Fetch
    \/ SaveHtml
    \/ SaveHtmlFails
    \/ SelectContainers
    \/ ExtractNext
    \/ Dedup
    \/ Return
    \/ FinishSite
    \/ SiteRaised
    \/ Combine

SpecMain == InitMain /\ [][NextMain]_vars

(***************************************************************************)
(* The date parsers of the site configurations on their own.               *)
(***************************************************************************)
\* dates as the AWS and Reuters pages carry them, and strings near them
StampTexts ==
    {<<"2", "0", "2", "5", "-", "0", "5", "-", "0", "7", "T", "0", "6", ":", "3", "4", ":", "4", "8", "-", "0", "7", ":", "0", "0">>,
     <<"2", "0", "2", "5", "-", "0", "5", "-", "0", "7", "T", "0", "6", ":", "3", "4", ":", "4", "8">>,
     <<"2", "0", "2", "5", "-", "0", "5", "-", "0", "7">>,
     <<"7", " ", "M", "a", "y", " ", "2", "0", "2", "5">>,
     <<"M", "a", "y", " ", "7", ",", " ", "2", "0", "2", "5">>,
     <<"2", "0", "2", "5", "-", "1", "3", "-", "0", "7">>,
     <<"2", "0", "2", "5", "-", "0", "5", "-", "0", "7", "T", "0", "6", ":", "3", "4", ":", "4", "8", "-", "0", "7", ":", "0", "0", "x">>,
     <<"2", "0", "2", "5", "-", "0", "2", "-", "3", "0", "T", "0", "6", ":", "3", "4", ":", "4", "8", "+", "0", "1", ":", "0", "0">>,
     <<"2", "0", "2", "5", "-", "0", "5", "-", "0", "9", "T", "0", "9", ":", "2", "1", ":", "2", "3", "Z">>,
     <<"2", "0", "2", "5", "-", "0", "5", "-", "0", "9", "T", "2", "5", ":", "2", "1", ":", "2", "3", "Z">>,
     <<"2", "0", "2", "5", "-", "0", "5", "-", "0", "9", "T", "0", "9", ":", "2", "1", ":", "2", "3", "Z", "Z">>,
     <<" ", "2", "0", "2", "5", "-", "0", "5", "-", "0", "7", " ">>,
     <<"d", "e", "c", "e", "m", "b", "e", "r", " ", "3", "1", ",", " ", "2", "0", "2", "4">>,
     <<"3", "1", " ", "d", "e", "c", " ", "2", "0", "2", "4">>,
     <<"3", " ", "h", "o", "u", "r", "s", " ", "a", "g", "o">>,
     <<"5", " ", "M", "i", "n", "u", "t", "e", "s", " ", "A", "g", "o">>,
     <<"2", "d", "a", "y", "s", " ", "a", "g", "o">>,
     <<"U", "p", "d", "a", "t", "e", "d", " ", "2", " ", "h", "r", "s", " ", "a", "g", "o">>,
     <<" ", " ", " ">>,
     <<"0", "9", "9", "9", "-", "0", "1", "-", "0", "1">>}

Abbreviations == {SubSeq(m, 1, 3) : m \in FullMonths}

\* "<Month> <d>, <yyyy> · <h>:<mm> <AM|PM> <TZ>"
ReutersText(month, d, y, h, mm, am_pm, tz) ==
    month \o <<" ">> \o ToDecimal(d) \o <<",", " ">> \o ToDecimal(y)
          \o <<" ", "middot", " ">> \o ToDecimal(h) \o <<":">>
          \o (IF mm < 10 THEN <<"0">> ELSE <<>>) \o ToDecimal(mm)
          \o <<" ">> \o am_pm \o <<" ">> \o tz

\* the parts of the Reuters dates tried: every month name and abbreviation,
\* a day every month has and one only some have, midnight, noon and two
\* other times
ReutersParts ==
    [month : FullMonths \cup Abbreviations \cup {<<"S", "e", "p", "t">>},
     d : {9, 30}, y : {2025}, h : {5, 12}, mm : {0, 21},
     am_pm : {<<"A", "M">>, <<"P", "M">>}, tz : {<<"E", "D", "T">>}]

ReutersOf(p) == ReutersText(p.month, p.d, p.y, p.h, p.mm, p.am_pm, p.tz)

ReutersTexts ==
    {ReutersOf(p) : p \in ReutersParts}
        \cup {<<"x", " ", "M", "a", "y", " ", "9", ",", " ", "2", "0", "2", "5", " ", "middot", " ", "5", ":", "2", "1", " ", "A", "M", " ", "E", "D", "T">>,
              <<"M", "a", "r", "c", "h", " ", "9", ",", " ", "2", "0", "2", "5", " ", "middot", " ", "1", "3", ":", "2", "1", " ", "P", "M", " ", "E", "D", "T">>,
              <<"F", "e", "b", "r", "u", "a", "r", "y", " ", "2", "9", ",", " ", "2", "0", "2", "4", " ", "middot", " ", "5", ":", "2", "1", " ", "A", "M", " ", "E", "D", "T">>}

ParserNames ==
    {"news_scraper_configs.parse_bbc_date", "news_scraper_configs.parse_cnn_date",
     "bbc_config.parse_bbc_date", "aws_config.parse_aws_date",
     "reuters_config.parse_reuters_date"}

ParserArgs ==
    {NoneArg} \cup {StrArg(t) : t \in DateTexts \cup StampTexts \cup ReutersTexts}

InitParsers ==
    /\ call \in {[fn |-> f, date_str |-> a] : f \in ParserNames, a \in ParserArgs}
    /\ ret = 0
    /\ pc = "call"
    /\ site_config = CfgPlain
    /\ response = [kind |-> "error", status |-> 0, body |-> <<>>]
    /\ containers = <<>>
    /\ idx = 1
    /\ outcomes = <<>>
    /\ articles = <<>>
    /\ result = <<>>
    /\ fetches = 0
    /\ get_timeout = 0
    /\ html_write = "ok"
    /\ log = <<>>
    /\ mpc = "none"
    /\ site = 0
    /\ all_articles = <<>>

\* one call of the parser named fn, returning what parse returns
ParserCall(fn, parsed) ==
    /\ pc = "call"
    /\ call.fn = fn
    /\ ret' = parsed
    /\ pc' = "returned"
    /\ UNCHANGED <<call, site_config, response, containers, idx, outcomes,
                   articles, result, fetches, get_timeout, html_write, log,
                   mainVars>>

CallBbcLegacy ==
    ParserCall("news_scraper_configs.parse_bbc_date",
               ParseBbcDateLegacyArg(call.date_str))

CallCnn ==
    ParserCall("news_scraper_configs.parse_cnn_date", ParseCnnDateArg(call.date_str))

CallBbc == ParserCall("bbc_config.parse_bbc_date", ParseBbcDate(call.date_str))

CallAws == ParserCall("aws_config.parse_aws_date", ParseAwsDate(call.date_str))

CallReuters ==
    ParserCall("reuters_config.parse_reuters_date", ParseReutersDate(call.date_str))

NextParsers == CallBbcLegacy \/ CallCnn \/ CallBbc \/ CallAws \/ CallReuters

SpecParsers == InitParsers /\ [][NextParsers]_vars

(***************************************************************************)
(* save_to_csv on its own.  The file written is its header and its rows,   *)
(* each row the sequence of its cells as text.                             *)
(***************************************************************************)
MaxRows == 2

\* line 299
Fieldnames ==
    <<"title", "link", "summary", "publish_date", "category", "author",
      "image_url", "source">>

FieldSet == {Fieldnames[j] : j \in 1..Len(Fieldnames)}

\* a row built from the whole article instead of the listed fields
CsvRowWhole(article) == article

\* line 308: {field: article.get(field, '') for field in fieldnames}
CsvRow(article) ==
    [field \in FieldSet |-> IF Has(article, field) THEN article[field] ELSE <<>>]

\* datetime.isoformat() of a timestamp, as text
IsoText(t) == <<"T">> \o ToDecimal(t)

\* what csv.writer writes for a value: the empty string for None and for
\* '', the string itself otherwise
CsvText(field, v) ==
    IF v = <<>> THEN <<>>
    ELSE IF field = "publish_date"
    THEN CASE v.k = "none" -> <<>>
           [] v.k = "iso" -> IsoText(v.t)
           [] v.k = "str" -> v.s
    ELSE IF field \in {"category", "author", "image_url"} THEN v[1]
    ELSE v

\* DictWriter.writerow: a key outside fieldnames is a ValueError, a missing
\* key is written as the empty string
WriteRowRaises(row) == ~(DOMAIN row \subseteq FieldSet)

WriteRow(row) ==
    [j \in 1..Len(Fieldnames) |->
        IF Has(row, Fieldnames[j]) THEN CsvText(Fieldnames[j], row[Fieldnames[j]])
        ELSE <<>>]

\* UniversalNewsScraper.save_to_csv
SaveToCsv(arts) ==
    IF \E i \in 1..Len(arts) : WriteRowRaises(CsvRow(arts[i]))
    THEN [kind |-> "raise"]
    ELSE [kind |-> "file", header |-> Fieldnames,
          rows |-> [i \in 1..Len(arts) |-> WriteRow(CsvRow(arts[i]))]]

\* a configuration with a selector for every field
CfgFull ==
    [CfgPlain EXCEPT !.selectors =
        PlainSelectors @@ [image |-> Simple(Css("", "pic")),
                           summary |-> Simple(Css("a", "")),
                           category |-> Simple(Css("", "live-tag")),
                           author |-> Simple(Css("h3", ""))]]

\* records as scrape_news returns them: extracted under a few
\* configurations, with and without hooks
CsvArticles ==
    LET outs == {ExtractArticle(cfg, n) :
                    cfg \in {CfgFull, CfgBbc, CfgHookKeep, CfgFallback},
                    n \in {CardX, CardY, CardNoHref, CardHookDropsLink, CardNested}
                          \cup ImageCards}
    IN  {o.a : o \in {x \in outs : x.kind = "article"}}

InitCsv ==
    /\ call \in {[fn |-> "save_to_csv", articles |-> arts] :
                    arts \in SeqsUpTo(CsvArticles, MaxRows)}
    /\ site_config = CfgPlain
    /\ ret = 0
    /\ pc = "call"
    /\ response = [kind |-> "error", status |-> 0, body |-> <<>>]
    /\ containers = <<>>
    /\ idx = 1
    /\ outcomes = <<>>
    /\ articles = <<>>
    /\ result = <<>>
    /\ fetches = 0
    /\ get_timeout = 0
    /\ html_write = "ok"
    /\ log = <<>>
    /\ mpc = "none"
    /\ site = 0
    /\ all_articles = <<>>

\* one call of save_to_csv(articles)
SaveCsv ==
    /\ pc = "call"
    /\ call.fn = "save_to_csv"
    /\ ret' = SaveToCsv(call.articles)
    /\ pc' = "returned"
    /\ UNCHANGED <<call, site_config, response, containers, idx, outcomes,
                   articles, result, fetches, get_timeout, html_write, log,
                   mainVars>>

NextCsv == SaveCsv

SpecCsv == InitCsv /\ [][NextCsv]_vars

(***************************************************************************)
(* Claims about the selector resolver, under SpecResolver.                 *)
(***************************************************************************)
ResolverReturned == pc = "returned" /\ call.fn = "_find_element"

\* the positions of a selector list whose Simple resolution is non-none
SimpleHits(els, sels) == {i \in 1..Len(sels) : SelectOne(els, 0, sels[i]) # 0}

\* C9: resolving a Fallback descriptor [s1..sn] returns the Simple resolution
\* of the first selector, in list order, that resolves to an element, and
\* none when no selector does or the list is empty.
C9_FallbackFirstMatch ==
    (ResolverReturned /\ call.selector_config.shape = "list") =>
        LET els == call.container.els
            sels == call.selector_config.l
            hits == SimpleHits(els, sels)
        IN  IF hits = {} THEN ret = 0
            ELSE ret = SelectOne(els, 0, sels[CHOOSE i \in hits : \A j \in hits : i <= j])

\* C9 witness: a list whose first selector fails and whose second resolves
C9_Witness ==
    /\ ResolverReturned
    /\ call.selector_config.shape = "list"
    /\ Len(call.selector_config.l) >= 2
    /\ 1 \notin SimpleHits(call.container.els, call.selector_config.l)
    /\ 2 \in SimpleHits(call.container.els, call.selector_config.l)
    /\ ret # 0

\* what one strategy of a Keyed descriptor finds on its own
StrategyMatch(els, e) ==
    CASE e.k = "css" -> FirstSelected(els, CssList(e.v))
      [] e.k = "tag" -> FindTag(els, 0, e.v)
      [] e.k = "class" -> FindClass(els, 0, e.v)
      [] e.k = "attrs" -> FindAttrs(els, 0, e.v)
      [] OTHER -> 0

PriorityOrder == <<"css", "tag", "class", "attrs">>

\* the entries of a dict in the priority order css, tag, class, attrs
ByPriority(entries) ==
    LET present == {p \in 1..4 : \E i \in 1..Len(entries) : entries[i].k = PriorityOrder[p]}
        nth(n) == CHOOSE p \in present : Cardinality({q \in present : q < p}) = n - 1
    IN  [n \in 1..Cardinality(present) |->
            entries[CHOOSE i \in 1..Len(entries) : entries[i].k = PriorityOrder[nth(n)]]]

\* C10: resolving a Keyed descriptor tries css, tag, class, attrs in that
\* order whatever the order of the map, falls through a strategy that finds
\* nothing, and returns the match of the first strategy that yields one.
C10_KeyedPriorityFallthrough ==
    (ResolverReturned /\ call.selector_config.shape = "dict") =>
        LET els == call.container.els
            ordered == ByPriority(call.selector_config.d)
            hits == {i \in 1..Len(ordered) : StrategyMatch(els, ordered[i]) # 0}
        IN  IF hits = {} THEN ret = 0
            ELSE ret = StrategyMatch(els, ordered[CHOOSE i \in hits : \A j \in hits : i <= j])

(***************************************************************************)
(* Claims about scrape_news and the extractor, under Spec.                 *)
(***************************************************************************)
RECURSIVE ArticlesOf(_)
\* the articles among the extraction results, in order
ArticlesOf(outs) ==
    IF outs = <<>> THEN <<>>
    ELSE IF Head(outs).kind = "article"
    THEN <<Head(outs).a>> \o ArticlesOf(Tail(outs))
    ELSE ArticlesOf(Tail(outs))

\* the subsequence of arts at the positions in keep
RECURSIVE Pick(_, _, _)
Pick(arts, keep, i) ==
    IF i > Len(arts) THEN <<>>
    ELSE IF i \in keep THEN <<arts[i]>> \o Pick(arts, keep, i + 1)
    ELSE Pick(arts, keep, i + 1)

\* the first occurrence of each distinct link, in the original order
FirstOccurrences(arts) ==
    Pick(arts, {i \in 1..Len(arts) : \A j \in 1..(i - 1) : arts[j].link # arts[i].link}, 1)

\* C1: with removeDuplicates true, the list returned by scrape_news holds no
\* two articles with the same link.
C1_NoDuplicateLinks ==
    (pc = "done" /\ RemoveDuplicatesOn(site_config)) =>
        /\ \A i \in 1..Len(result) : Has(result[i], "link")
        /\ \A i, j \in 1..Len(result) : i # j => result[i].link # result[j].link

\* C1 witness: a scrape that returned articles after dropping a duplicate
C1_Witness ==
    /\ pc = "done"
    /\ RemoveDuplicatesOn(site_config)
    /\ Len(result) >= 1
    /\ Len(ArticlesOf(outcomes)) > Len(result)

\* C2: with removeDuplicates true, the list returned by scrape_news is the
\* subsequence of the extracted articles made of the first occurrence of
\* each distinct link, in their original order.  The extracted articles are
\* records with a link; a hook-returned record without one is not covered.
C2_FirstOccurrenceWins ==
    (pc = "done" /\ RemoveDuplicatesOn(site_config)
        /\ ~LinkKeyError(ArticlesOf(outcomes))) =>
        result = FirstOccurrences(ArticlesOf(outcomes))

\* C2 witness: [A(x), B(y), C(x)] gives [A, B]
C2_Witness ==
    /\ pc = "done"
    /\ RemoveDuplicatesOn(site_config)
    /\ Len(outcomes) = 3
    /\ \A i \in 1..3 : outcomes[i].kind = "article" /\ Has(outcomes[i].a, "link")
    /\ outcomes[1].a.link = outcomes[3].a.link
    /\ outcomes[1].a.link # outcomes[2].a.link
    /\ outcomes[1].a # outcomes[3].a
    /\ result = <<outcomes[1].a, outcomes[2].a>>

\* C3: scrape_news never raises to its caller.
C3_NeverRaises == pc # "raised"

Non2xx(status) == ~(200 <= status /\ status < 300)

\* scrape_news has returned after the fetch was made
ReturnedAfterFetch == pc = "done" /\ fetches > 0

\* what a site-level failure at the fetch leaves: nothing selected, nothing
\* extracted, the empty list returned
FailedAtFetch ==
    /\ result = <<>>
    /\ containers = <<>>
    /\ outcomes = <<>>

\* C4 as stated: a fetch that ends in a network failure or in any non-2xx
\* status makes scrape_news return the empty list and extract nothing.
C4_Non2xxIsSiteFailure ==
    (ReturnedAfterFetch /\ (response.kind = "error" \/ Non2xx(response.status)))
        => FailedAtFetch

\* C4 as amended: a fetch that ends in a network failure or in a 4xx or 5xx
\* status makes scrape_news return the empty list and extract nothing.
C4_ErrorStatusIsSiteFailure ==
    (ReturnedAfterFetch
        /\ (response.kind = "error" \/ (400 <= response.status /\ response.status < 600)))
        => FailedAtFetch

\* C4 witness: a 404 response whose body holds a container is not extracted
C4_Witness ==
    /\ pc = "done"
    /\ fetches > 0
    /\ response.kind = "response"
    /\ response.status = 404
    /\ SelectAll(response.body, Css("", "card")) # <<>>
    /\ FailedAtFetch

\* an exception was raised while extracting the container (in the date
\* parser or in the hook) and caught at lines 204-206
Raised(out) == out = Discarded("exception")

\* the selected containers whose extraction raises, and the others
Raising ==
    {i \in 1..Len(containers) : Raised(ExtractArticle(site_config, containers[i]))}

Survivors == (1..Len(containers)) \ Raising

\* what lines 81-95 return for a list of accumulated records
Final(cfg, arts) ==
    IF ~RemoveDuplicatesOn(cfg) THEN arts
    ELSE IF LinkKeyError(arts) THEN <<>>
    ELSE FirstOccurrences(arts)

\* C5: an exception raised while extracting one container, the hook
\* included, discards only that container's article: every container of
\* the page is still handed to the extractor, and the list returned is the
\* one the page gives without the containers that raised.
C5_ExceptionDiscardsOneArticle ==
    (pc = "done" /\ Raising # {}) =>
        /\ Len(outcomes) = Len(containers)
        /\ \A i \in Survivors : outcomes[i] = ExtractArticle(site_config, containers[i])
        /\ result = Final(site_config,
                          ArticlesOf(Pick(outcomes, Survivors, 1)))

\* C5 witness: the hook raised on the first container and the article of a
\* later container is returned
C5_Witness ==
    /\ pc = "done"
    /\ Len(outcomes) >= 2
    /\ Raised(outcomes[1])
    /\ Configured(site_config, "post_process")
    /\ containers[1].hk = "raise"
    /\ outcomes[2].kind = "article"
    /\ \E k \in 1..Len(result) : result[k] = outcomes[2].a

\* the title and the link of the container resolve to non-empty values
TitleResolves(cfg, c) ==
    /\ Has(cfg.selectors, "title")
    /\ FindElement(c.els, cfg.selectors["title"]) # 0
    /\ \E i \in 1..Len(c.els[FindElement(c.els, cfg.selectors["title"])].text) :
          c.els[FindElement(c.els, cfg.selectors["title"])].text[i] \notin Whitespace

LinkResolves(cfg, c) ==
    /\ Has(cfg.selectors, "link")
    /\ LinkElem(cfg, c) # 0
    /\ "href" \in DOMAIN c.els[LinkElem(cfg, c)].attrs
    /\ c.els[LinkElem(cfg, c)].attrs["href"] # <<>>

\* the date element of the container resolves and parsing its raw text fails
DateFails(cfg, c) == ExtractDate(cfg, c) = DateRaise

\* C6: a date that cannot be parsed, the configured date parser failing on
\* the raw text included, leaves the article produced with publish_date
\* null: the failure does not discard the article.
C6_DateFailureStaysFieldLevel ==
    \A i \in 1..Len(outcomes) :
        (/\ TitleResolves(site_config, containers[i])
         /\ LinkResolves(site_config, containers[i])
         /\ DateFails(site_config, containers[i])
         /\ ~Configured(site_config, "post_process")
              \/ site_config.post_process = "process_bbc_article")
            => /\ outcomes[i].kind = "article"
               /\ outcomes[i].a.publish_date = DateNone

\* C7: a container whose title selector resolves to nothing, or to an
\* element whose trimmed text is empty, yields none and no article of the
\* result comes from it.
C7_NoTitleNoArticle ==
    /\ \A i \in 1..Len(outcomes) :
          ~TitleResolves(site_config, containers[i]) => outcomes[i].kind = "none"
    /\ pc = "loop" => articles = ArticlesOf(outcomes)
    /\ pc = "done" =>
          \A k \in 1..Len(result) :
              \E i \in 1..Len(outcomes) :
                  outcomes[i].kind = "article" /\ outcomes[i].a = result[k]

\* C7 witness: a container with a blank title and a resolvable link was
\* skipped in a scrape that returned another container's article
C7_Witness ==
    /\ pc = "done"
    /\ Len(result) >= 1
    /\ \E i \in 1..Len(outcomes) :
          /\ FindElement(containers[i].els, site_config.selectors["title"]) # 0
          /\ ~TitleResolves(site_config, containers[i])
          /\ LinkResolves(site_config, containers[i])
          /\ outcomes[i] = Discarded("title")

\* C8: a container with a resolvable non-empty title but no resolvable link
\* (no link element, or one without a non-empty href) yields none.
C8_NoLinkNoArticle ==
    \A i \in 1..Len(outcomes) :
        (TitleResolves(site_config, containers[i])
            /\ ~LinkResolves(site_config, containers[i]))
            => outcomes[i] = Discarded("link")

\* C8 witness: a titled container whose anchor has no href was skipped
C8_Witness ==
    /\ pc = "done"
    /\ \E i \in 1..Len(outcomes) :
          /\ TitleResolves(site_config, containers[i])
          /\ LinkElem(site_config, containers[i]) # 0
          /\ ~LinkResolves(site_config, containers[i])
          /\ outcomes[i] = Discarded("link")

\* the proper ancestors of element t that are anchors
AnchorsAbove(els, t) ==
    {j \in 1..Len(els) : j # t /\ IsDescendant(els, t, j) /\ els[j].tag = "a"}

\* the anchor the same-as-title sentinel stands for: the nearest anchor
\* around the title element, else the first anchor inside it, else none
SameAsTitleAnchor(els, t) ==
    IF t = 0 THEN 0
    ELSE IF AnchorsAbove(els, t) # {}
    THEN CHOOSE j \in AnchorsAbove(els, t) :
             \A k \in AnchorsAbove(els, t) \ {j} : IsDescendant(els, j, k)
    ELSE First({j \in 1..Len(els) : IsDescendant(els, j, t) /\ els[j].tag = "a"})

\* C11: with the same-as-title link descriptor the link is read from the
\* nearest ancestor anchor of the resolved title element if there is one,
\* otherwise from the first anchor nested inside the title element,
\* otherwise from nothing; a title that resolves to none gives no link.
C11_SameAsTitleAnchor ==
    \A i \in 1..Len(outcomes) :
        site_config.selectors["link"] = SameAsTitle =>
            LET c == containers[i]
                t == FindElement(c.els, site_config.selectors["title"])
                e == SameAsTitleAnchor(c.els, t)
                href == IF e = 0 THEN <<>> ELSE Get(c.els[e], "href")
            IN  /\ t = 0 => outcomes[i] = Discarded("title")
                /\ (TitleResolves(site_config, c) /\ href = <<>>)
                      => outcomes[i] = Discarded("link")
                /\ (TitleResolves(site_config, c) /\ href # <<>>
                        /\ c.hk \in {"same", "inject"})
                      => /\ outcomes[i].kind = "article"
                         /\ outcomes[i].a.link = UrlJoin(site_config.url, href)

\* C11 witness: a title with two anchors around it and one inside it took
\* the link of the nearer anchor
C11_Witness ==
    /\ pc = "done"
    /\ site_config.selectors["link"] = SameAsTitle
    /\ \E i \in 1..Len(outcomes) :
          LET els == containers[i].els
              t == FindElement(els, site_config.selectors["title"])
          IN  /\ t # 0
              /\ Cardinality(AnchorsAbove(els, t)) = 2
              /\ FindTag(els, t, "a") # 0
              /\ outcomes[i].kind = "article"
              /\ outcomes[i].a.link = UrlJoin(site_config.url, <<"/", "q">>)
              /\ \E k \in 1..Len(result) : result[k] = outcomes[i].a

\* a node matches a container descriptor: the selector of a str, any of the
\* selectors of a list
ContainerMatches(n, d) ==
    CASE d.shape = "str" -> Matches(n, d.s)
      [] d.shape = "list" -> \E k \in 1..Len(d.l) : Matches(n, d.l[k])

\* C12: whatever the shape of the container descriptor, the selection step
\* of scrape_news makes every matching node of the page a container, in
\* document order, and goes on to extract them.
C12_ContainerDescriptorAnyShape ==
    [][pc = "select" =>
          /\ containers' = SelectSeq(response.body,
                                     LAMBDA n : ContainerMatches(n, site_config.article_container))
          /\ pc' = "loop"]_vars

\* the records of the non-none results, in the order of the results
NonNone(outs) ==
    LET kept == SelectSeq(outs, LAMBDA o : o.kind = "article")
    IN  [k \in 1..Len(kept) |-> kept[k].a]

\* C13: the accumulated articles are the non-none extraction results of the
\* containers in document order; with removeDuplicates false the list
\* returned is exactly that sequence, duplicates included.
C13_DocumentOrderKept ==
    /\ \A i \in 1..Len(outcomes) :
          outcomes[i] = ExtractArticle(site_config, containers[i])
    /\ pc \in {"loop", "return"} =>
          /\ containers = SelectAll(response.body, site_config.article_container.s)
          /\ articles = NonNone(outcomes) \/ pc = "return"
    /\ (pc = "done" /\ Has(site_config, "remove_duplicates")
           /\ ~site_config.remove_duplicates) =>
          result = NonNone([i \in 1..Len(containers) |->
                               ExtractArticle(site_config, containers[i])])

\* C13 witness: of three containers the second gave none, the first and the
\* third gave articles with the same link, and both were returned in order
C13_Witness ==
    /\ pc = "done"
    /\ Has(site_config, "remove_duplicates")
    /\ ~site_config.remove_duplicates
    /\ Len(outcomes) = 3
    /\ outcomes[2].kind = "none"
    /\ outcomes[1].kind = "article"
    /\ outcomes[3].kind = "article"
    /\ Has(outcomes[1].a, "link")
    /\ Has(outcomes[3].a, "link")
    /\ outcomes[1].a.link = outcomes[3].a.link
    /\ result = <<outcomes[1].a, outcomes[3].a>>

(***************************************************************************)
(* Claims about the date normalizer, under SpecDates.                      *)
(***************************************************************************)
DateReturned == pc = "returned" /\ call.fn = "_parse_relative_date"

AllDigits(s) == s # <<>> /\ \A i \in 1..Len(s) : IsDigit(s[i])

\* the text is "<N> <unit> ago" in that unit form, once lowercased and
\* trimmed
IsAgo(text, form) ==
    LET t == Strip(Lower(text))
        n == Len(t) - Len(form.w)
    IN  /\ n >= 1
        /\ SubSeq(t, n + 1, Len(t)) = form.w
        /\ AllDigits(SubSeq(t, 1, n))

\* the N of a text that IsAgo
AgoCount(text, form) ==
    LET t == Strip(Lower(text))
    IN  DecimalValue(SubSeq(t, 1, Len(t) - Len(form.w)))

Yesterday == <<"y", "e", "s", "t", "e", "r", "d", "a", "y">>

Today == <<"t", "o", "d", "a", "y">>

\* the text matches one of the relative-date patterns
MatchesDatePattern(text) ==
    \/ \E form \in UnitForms : IsAgo(text, form)
    \/ Strip(Lower(text)) \in {Yesterday, Today}

\* C14: a non-empty date text that matches none of the relative-date
\* patterns is returned unchanged, exactly as it was passed in.
C14_UnmatchedTextUnchanged ==
    (DateReturned /\ call.date_text # <<>> /\ ~MatchesDatePattern(call.date_text))
        => ret = DateStr(call.date_text)

\* C15: "N <unit> ago", for every N and every unit form (minute, minutes,
\* min, mins, hour, hours, hr, hrs, day, days), is mapped to the clock value
\* minus N of that unit.
C15_AgoIsNowMinusN ==
    DateReturned =>
        \A form \in UnitForms :
            IsAgo(call.date_text, form) =>
                ret = [k |-> "iso", t |-> Now - AgoCount(call.date_text, form) * form.unit]

\* C16: the literal "yesterday" is mapped to the clock value minus one day
\* and the literal "today" to the clock value, both as timestamps.
C16_YesterdayTodayAreTimestamps ==
    /\ (DateReturned /\ call.date_text = Yesterday)
          => ret = [k |-> "iso", t |-> Now - 1440]
    /\ (DateReturned /\ call.date_text = Today)
          => ret = [k |-> "iso", t |-> Now]

(***************************************************************************)
(* Claims about the extractor and scrape_news, continued (under Spec).     *)
(***************************************************************************)
\* the element has a non-empty datetime attribute
HasDatetime(e) == "datetime" \in DOMAIN e.attrs /\ e.attrs["datetime"] # <<>>

\* what the claim gives for the publish_date of a resolved date element
ExpectedDate(cfg, e) ==
    LET raw == IF HasDatetime(e) THEN e.attrs["datetime"] ELSE Strip(e.text)
    IN  IF Has(cfg, "date_parser") /\ cfg.date_parser # "None"
        THEN ApplyDateParser(cfg.date_parser, raw)
        ELSE ParseRelativeDate(raw)

\* C17: for a resolved date element the raw date is its datetime attribute
\* when present and non-empty, otherwise its trimmed text; the raw date goes
\* to the configured date parser, to the default normalizer only when none
\* is configured, and what the parser returns is the article's publish_date.
C17_RawDateToParser ==
    \A i \in 1..Len(outcomes) :
        LET c == containers[i]
            date_elem == FieldElem(site_config, c, "date")
        IN  (outcomes[i].kind = "article" /\ date_elem # 0) =>
                outcomes[i].a.publish_date = ExpectedDate(site_config, c.els[date_elem])

\* C17 witness: under a configured date parser one article took its date
\* from the datetime attribute and another from the text, which the
\* configured parser converted and the default normalizer would not have
C17_Witness ==
    /\ pc = "done"
    /\ Configured(site_config, "date_parser")
    /\ \E i, j \in 1..Len(outcomes) :
          LET di == FieldElem(site_config, containers[i], "date")
              dj == FieldElem(site_config, containers[j], "date")
          IN  /\ outcomes[i].kind = "article" /\ outcomes[j].kind = "article"
              /\ di # 0 /\ dj # 0
              /\ HasDatetime(containers[i].els[di])
              /\ Strip(containers[i].els[di].text) # <<>>
              /\ outcomes[i].a.publish_date = DateStr(containers[i].els[di].attrs["datetime"])
              /\ ~HasDatetime(containers[j].els[dj])
              /\ outcomes[j].a.publish_date = [k |-> "iso", t |-> Now - 180]
              /\ ParseRelativeDate(Strip(containers[j].els[dj].text))
                    # outcomes[j].a.publish_date

\* C18: the page fetch is issued with the timeout of the site
\* configuration, so configurations that differ only in timeout fetch with
\* their respective values.
C18_FetchUsesConfiguredTimeout ==
    (fetches > 0 /\ Has(site_config, "timeout")) =>
        get_timeout = site_config.timeout

\* the absolute link of a container whose link resolves
LinkOf(cfg, c) == UrlJoin(cfg.url, Get(c.els[LinkElem(cfg, c)], "href"))

\* the page is three containers: one without a title, one with a title, a
\* link and the date text "3 hours ago", and one with a title and the link
\* of the second; no custom date parser or hook is configured
ThreeContainerFixture ==
    /\ response.kind = "response"
    /\ response.status = 200
    /\ Len(containers) = 3
    /\ containers = response.body
    /\ ~Configured(site_config, "date_parser")
    /\ ~Configured(site_config, "post_process")
    /\ ~TitleResolves(site_config, containers[1])
    /\ \A i \in {2, 3} : /\ TitleResolves(site_config, containers[i])
                         /\ LinkResolves(site_config, containers[i])
    /\ FieldElem(site_config, containers[2], "date") # 0
    /\ containers[2].els[FieldElem(site_config, containers[2], "date")].attrs = NoAttrs
    /\ containers[2].els[FieldElem(site_config, containers[2], "date")].text = ThreeHoursAgo
    /\ LinkOf(site_config, containers[3]) = LinkOf(site_config, containers[2])

\* C19: on that page scrape_news with removeDuplicates true returns exactly
\* one article, the second container's, with publish_date the clock value
\* minus three hours.
C19_EndToEnd ==
    (pc = "done" /\ RemoveDuplicatesOn(site_config) /\ ThreeContainerFixture) =>
        /\ Len(result) = 1
        /\ result[1].title
              = Strip(containers[2].els[FieldElem(site_config, containers[2], "title")].text)
        /\ result[1].link = LinkOf(site_config, containers[2])
        /\ result[1].publish_date = [k |-> "iso", t |-> Now - 180]

\* C19 witness: the scenario ran to its return, the third container being a
\* different card that reaches the second's link through another href
C19_Witness ==
    /\ pc = "done"
    /\ RemoveDuplicatesOn(site_config)
    /\ ThreeContainerFixture
    /\ containers[3] # containers[2]
    /\ Get(containers[3].els[LinkElem(site_config, containers[3])], "href")
          # Get(containers[2].els[LinkElem(site_config, containers[2])], "href")
    /\ Len(result) = 1

\* the record has the site's name as source, a title with a visible
\* character and a non-empty link
WellFormed(cfg, a) ==
    /\ a.source = cfg.name
    /\ \E k \in 1..Len(a.title) : a.title[k] \notin Whitespace
    /\ a.link # <<>>

\* the hook, if any, hands the assembled record on with its fields intact
HookKeepsFields(cfg, c) ==
    \/ ~Configured(cfg, "post_process")
    \/ cfg.post_process = "process_bbc_article"
    \/ c.hk \in {"same", "inject"}

\* C20: every article assembled by the extractor has source equal to the
\* site's name, a non-empty title and a non-empty link; with no
\* post-process hook configured so has every article of the list returned.
C20_ArticleWellFormed ==
    /\ \A i \in 1..Len(outcomes) :
          (outcomes[i].kind = "article" /\ HookKeepsFields(site_config, containers[i]))
              => WellFormed(site_config, outcomes[i].a)
    /\ (pc = "done" /\ ~Configured(site_config, "post_process")) =>
          \A k \in 1..Len(result) : WellFormed(site_config, result[k])

\* C20 witness: without a hook, a scrape returned two articles, one of them
\* from a title that needed trimming, next to a container it discarded
C20_Witness ==
    /\ pc = "done"
    /\ ~Configured(site_config, "post_process")
    /\ Len(result) = 2
    /\ \E i \in 1..Len(outcomes) : outcomes[i].kind = "none"
    /\ \E i \in 1..Len(outcomes) :
          LET t == FieldElem(site_config, containers[i], "title")
          IN  /\ outcomes[i].kind = "article"
              /\ t # 0
              /\ containers[i].els[t].text # outcomes[i].a.title
              /\ \E k \in 1..2 : result[k] = outcomes[i].a
    /\ \A k \in 1..2 : result[k].source = SiteName

\* what the configured hook returns for the record assembled from a
\* container whose title, link and date were extracted
HookReturn(cfg, c) ==
    PostProcess(cfg, BuildArticle(cfg, c, ExtractTitle(cfg, c), ExtractLink(cfg, c)), c)

\* the records the extractor handed to scrape_news
Received == {outcomes[i].a : i \in {j \in 1..Len(outcomes) : outcomes[j].kind = "article"}}

\* C21: with a post-process hook configured, the record kept for a
\* container is the record the hook returned, and every record accumulated
\* and returned by scrape_news is one of those records with all of its
\* fields, injected ones included: accumulation and dedup neither remove nor
\* alter a field.
C21_HookRecordPreserved ==
    Configured(site_config, "post_process") =>
        /\ \A i \in 1..Len(outcomes) :
              outcomes[i].kind = "article" =>
                  outcomes[i] = HookReturn(site_config, containers[i])
        /\ \A k \in 1..Len(articles) : articles[k] \in Received
        /\ \A k \in 1..Len(result) : result[k] \in Received

\* C21 witness: dedup dropped a duplicate and the returned list holds a
\* record with a field the hook injected
C21_Witness ==
    /\ pc = "done"
    /\ Configured(site_config, "post_process")
    /\ site_config.post_process = "custom"
    /\ RemoveDuplicatesOn(site_config)
    /\ Len(NonNone(outcomes)) > Len(result)
    /\ \E k \in 1..Len(result) :
          /\ Has(result[k], "has_video")
          /\ result[k].has_video
          /\ result[k].source = SiteName

\* the hook returned, for some container, a record without the link field
LinklessRecord ==
    \E i \in 1..Len(outcomes) :
        outcomes[i].kind = "article" /\ ~Has(outcomes[i].a, "link")

\* C23: when the hook returns a record without the link field for one
\* container, the articles of the other containers are still returned,
\* with or without removeDuplicates (a duplicate being represented by the
\* first article with its link).
C23_LinklessRecordIsolated ==
    (pc = "done" /\ LinklessRecord) =>
        \A j \in 1..Len(outcomes) :
            (outcomes[j].kind = "article" /\ Has(outcomes[j].a, "link")) =>
                \E k \in 1..Len(result) :
                    /\ Has(result[k], "link")
                    /\ result[k].link = outcomes[j].a.link

\* the fetch of this scrape returned a response that passed the status check
FetchSucceeded ==
    /\ fetches > 0
    /\ response.kind = "response"
    /\ ~(400 <= response.status /\ response.status < 600)

\* C29: the debug copy of the HTML is written after a successful fetch and
\* before the page is parsed, inside the site-level error boundary: when
\* that write fails, scrape_news returns the empty list and nothing of the
\* page is selected or extracted, whatever the page holds.
C29_DebugWriteFailureIsSiteFailure ==
    /\ pc = "save_html" =>
          FetchSucceeded /\ containers = <<>> /\ outcomes = <<>>
    /\ (mpc = "none" /\ FetchSucceeded /\ html_write = "fails"
           /\ pc \notin {"fetch", "save_html"}) =>
          /\ pc = "done"
          /\ result = <<>>
          /\ containers = <<>>
          /\ outcomes = <<>>

\* C29 witness: a fetched page with an extractable container gave the empty
\* list because the debug file could not be written
C29_Witness ==
    /\ pc = "done"
    /\ FetchSucceeded
    /\ html_write = "fails"
    /\ Has(site_config, "name")
    /\ Has(site_config, "article_container")
    /\ site_config.article_container.shape = "str"
    /\ \E n \in 1..Len(response.body) :
          /\ Matches(response.body[n], site_config.article_container.s)
          /\ ExtractArticle(site_config, response.body[n]).kind = "article"
    /\ result = <<>>

(***************************************************************************)
(* Claims about the extractor on its own, under SpecExtractor.             *)
(***************************************************************************)
ExtractorReturned ==
    pc = "returned" /\ call.fn = "_extract_article_from_container"

\* the img the image is read from: the resolved element when it is an img,
\* else the first img nested in it, else none
ImageTag(els, e) ==
    IF e = 0 THEN 0
    ELSE IF els[e].tag = "img" THEN e
    ELSE First({j \in 1..Len(els) : IsDescendant(els, j, e) /\ els[j].tag = "img"})

NonEmptyAttr(e, name) == name \in DOMAIN e.attrs /\ e.attrs[name] # <<>>

\* what the claim gives for image_url
ExpectedImage(cfg, c) ==
    LET img == ImageTag(c.els, FindElement(c.els, cfg.selectors["image"]))
    IN  IF img = 0 THEN None
        ELSE IF NonEmptyAttr(c.els[img], "src")
        THEN Some(UrlJoin(cfg.url, c.els[img].attrs["src"]))
        ELSE IF NonEmptyAttr(c.els[img], "data-src")
        THEN Some(UrlJoin(cfg.url, c.els[img].attrs["data-src"]))
        ELSE None

CsvReturned == pc = "returned" /\ call.fn = "save_to_csv"

\* the field is missing from the record or null in it
NullField(a, field) ==
    \/ ~Has(a, field)
    \/ a[field] = <<>>
    \/ field = "publish_date" /\ a[field] = DateNone

\* C25: save_to_csv writes one row per article with exactly the columns
\* title, link, summary, publish_date, category, author, image_url, source
\* in that order; a missing or null field is written as the empty string, a
\* present one as its text, and injected fields neither add a column nor
\* make the write fail.
C25_CsvFixedColumns ==
    CsvReturned =>
        /\ ret.kind = "file"
        /\ ret.header = <<"title", "link", "summary", "publish_date", "category",
                          "author", "image_url", "source">>
        /\ Len(ret.rows) = Len(call.articles)
        /\ \A i \in 1..Len(ret.rows) :
              /\ Len(ret.rows[i]) = 8
              /\ \A j \in 1..8 :
                    LET a == call.articles[i]
                        f == ret.header[j]
                    IN  IF NullField(a, f) THEN ret.rows[i][j] = <<>>
                        ELSE /\ ret.rows[i][j] # <<>>
                             /\ f \in {"title", "link", "summary", "source"}
                                  => ret.rows[i][j] = a[f]
                             /\ f \in {"category", "author", "image_url"}
                                  => <<ret.rows[i][j]>> = a[f]

\* C25 witness: a file of two rows, with a record carrying an injected field,
\* a record without link and a record with every optional field null
C25_Witness ==
    /\ CsvReturned
    /\ ret.kind = "file"
    /\ Len(ret.rows) = 2
    /\ \E i \in 1..2 :
          /\ Has(call.articles[i], "has_video")
          /\ ret.rows[i][1] = call.articles[i].title
    /\ \E i \in 1..2 :
          /\ ~Has(call.articles[i], "link")
          /\ ret.rows[i][2] = <<>>
          /\ ret.rows[i][1] # <<>>
    /\ \E i \in 1..2 :
          /\ \A j \in 3..7 : ret.rows[i][j] = <<>>
          /\ ret.rows[i][8] = SiteName

(***************************************************************************)
(* Claims about the date parsers of the site configurations, under         *)
(* SpecParsers.                                                            *)
(***************************************************************************)
ParserReturned == pc = "returned" /\ call.fn \in ParserNames

\* C22: every date parser shipped with a site configuration returns null
\* for null or empty input and a string (a timestamp or the text passed
\* through) for any non-empty string, and never raises.
C22_ParsersHonourContract ==
    ParserReturned =>
        IF call.date_str.none \/ call.date_str.s = <<>>
        THEN ret = DateNone
        ELSE ret.k \in {"iso", "at", "str"}

ReutersReturned ==
    pc = "returned" /\ call.fn = "reuters_config.parse_reuters_date"

\* the hour of the 24-hour clock
Hour24(h, am_pm) == (h % 12) + (IF am_pm = <<"P", "M">> THEN 12 ELSE 0)

\* C30: parse_reuters_date maps "<Month> <d>, <yyyy> · <h:mm> AM|PM <TZ>",
\* for every month name and every date that month has, to the timestamp of
\* the stated date and time, and never to the current time.
C30_ReutersStatedDate ==
    ReutersReturned =>
        \A p \in ReutersParts :
            (/\ p.month \in FullMonths
             /\ p.d <= DaysIn(MonthOf(p.month), p.y)
             /\ call.date_str = StrArg(ReutersOf(p)))
            => ret = At(p.y, MonthOf(p.month), p.d, Hour24(p.h, p.am_pm), p.mm, 0)

(***************************************************************************)
(* Claims about main, under SpecMain.                                      *)
(***************************************************************************)
\* the positions in log of site i's events named ev
Events(ev, i) == {j \in 1..Len(log) : log[j].ev = ev /\ log[j].site = i}

RECURSIVE CollectedUpTo(_)
\* the articles of the first n entries of log that extended all_articles
CollectedUpTo(n) ==
    IF n = 0 THEN <<>>
    ELSE CollectedUpTo(n - 1)
            \o (IF log[n].ev = "extend" THEN log[n].articles ELSE <<>>)

MainOver == mpc \in {"exit", "crashed"}

\* C26: in a run of main over several sites, a site that fails while it is
\* scraped or saved, or that yields no articles, removes nothing collected
\* from earlier sites, and every requested site is still scraped and, when
\* it completes with articles, saved.
C26_SitesIsolated ==
    /\ mpc # "none" => all_articles = CollectedUpTo(Len(log))
    /\ (mpc # "none" /\ MainOver) =>
          \A i \in 1..Len(call.sites) :
              /\ Events("begin", i) # {}
              /\ Events("end", i) # {}
    /\ mpc # "none" =>
          \A j \in 1..Len(log) :
              (log[j].ev = "end" /\ log[j].how = "saved") =>
                  /\ Events("extend", log[j].site) # {}
                  /\ (~call.combine /\ call.output \in {"json", "both"})
                        => Events("json", log[j].site) # {}
                  /\ (~call.combine /\ call.output \in {"csv", "both"})
                        => Events("csv", log[j].site) # {}

\* C26 witness: main returned after a first site that raised and a second
\* site whose articles were saved and collected
C26_Witness ==
    /\ mpc = "exit"
    /\ Len(call.sites) = 2
    /\ \E j \in Events("end", 1) : log[j].how = "raised"
    /\ Events("json", 2) # {}
    /\ all_articles # <<>>

\* the place of an event within its site's turn
Rank(ev) ==
    CASE ev = "begin" -> 1
      [] ev = "fetch" -> 2
      [] ev = "json" -> 3
      [] ev = "csv" -> 4
      [] ev = "extend" -> 5
      [] ev = "end" -> 6
      [] OTHER -> 7

\* C27: one call of scrape_news fetches at most once, and main handles the
\* sites one after the other in the requested order: all of a site's events
\* (fetch, files, end) come before the next site's first.
C27_OneFetchSequentialSites ==
    mpc # "none" =>
        /\ fetches <= 1
        /\ mpc = "scraping" =>
              site_config = [GetSiteConfig(call.sites[site]) EXCEPT !.verbose = FALSE]
        /\ \A i \in 1..Len(call.sites) : Cardinality(Events("fetch", i)) <= 1
        /\ \A j, k \in 1..Len(log) :
              j < k =>
                  /\ log[j].site <= log[k].site
                  /\ log[j].site = log[k].site => Rank(log[j].ev) <= Rank(log[k].ev)

\* C27 witness: main returned after two sites, each fetched once, with the
\* first site's files written before the second site's fetch
C27_Witness ==
    /\ mpc = "exit"
    /\ Events("fetch", 1) # {}
    /\ Events("fetch", 2) # {}
    /\ \E j \in Events("csv", 1) : \E k \in Events("fetch", 2) : j < k

\* C28: with --max-articles M given, what is saved and collected for a site
\* is the first min(M, n) of the n articles its scrape returned, for every
\* integer M, 0 included.
C28_MaxArticlesLimit ==
    (mpc # "none" /\ call.max_articles # <<>>) =>
        \A j \in 1..Len(log) :
            log[j].ev \in {"json", "csv", "extend"} =>
                /\ Len(log[j].articles) <= call.max_articles[1]
                /\ log[j].articles = SubSeq(log[j].of, 1, Len(log[j].articles))

=============================================================================
